---------------------------- MODULE Spec2Model ----------------------------
(***************************************************************************)
(* Model of the spending-analysis pipeline of                              *)
(* "financial logic/analysis.py": preprocess, monthly_trends,              *)
(* pattern_mining, detect_recurring, detect_anomalies, compute_variances,  *)
(* build_suggestions, build_challenges and summarise, run in the order of  *)
(* analyse_spending (Next), with the five stages that read the cleaned     *)
(* rows in any order (NextAnyOrder), and called repeatedly in one process  *)
(* (NextCalls).  The module-level tables are state: module_state.  The     *)
(* cached client of "financial logic/gemini_client.py" is gemini_client,   *)
(* called by GetGeminiClient.                                              *)
(*                                                                         *)
(* Conventions                                                             *)
(*  - A Python dict row is a TLA+ record; a key that is absent from the    *)
(*    dict is absent from the record's DOMAIN (row.get(k) is Get).         *)
(*  - A timestamp is [day, sod]: day counts days from 2024-01-01 (a        *)
(*    Monday, ISO 2024-W01-1) and sod is the second of the day.            *)
(*  - A month key "YYYY-MM" is the pair <<year, month>>, a week key        *)
(*    "YYYY-Www" the pair <<iso_year, iso_week>>.                          *)
(*  - Amounts are whole pounds; every derived real number is an exact      *)
(*    rational [n, d] (d > 0, lowest terms), except the merchant shares,   *)
(*    their HHI and the 99th percentile of the single-day scan, which are  *)
(*    IEEE-754 doubles [sign, m, e] rounded as the interpreter rounds      *)
(*    them.  The rows of SpecSpikes carry amounts in pounds and pence as   *)
(*    the doubles nearest them.                                            *)
(*  - A Python dict that is iterated is a sequence of entries in           *)
(*    insertion order.                                                     *)
(*  - Free-text fields (title, insight, action) are not modelled.          *)
(***************************************************************************)
EXTENDS Integers, Sequences, FiniteSets, TLC

VARIABLES
    transactions,   \* the input batch handed to analyse_spending
    pc,             \* position of analyse_spending
    raised,         \* the exception that ended the call ("" when none)
    rows,           \* result of preprocess
    trends,         \* result of monthly_trends
    patterns,       \* result of pattern_mining
    recurring,      \* result of detect_recurring
    anomalies,      \* result of detect_anomalies
    variances,      \* result of compute_variances
    suggestions,    \* result of build_suggestions
    challenges,     \* result of build_challenges
    report,         \* result of summarise / analyse_spending
    finished,       \* the functions called by analyse_spending that have returned
    module_state,   \* the module-level names of analysis.py and their values
    interpreter,    \* what the running interpreter decides: how sum() adds floats
    given_baselines,    \* the baselines argument of compute_variances (<<>> is None)
    gemini_client,  \* the module-level names of gemini_client.py, its clients and calls
    returned        \* the calls of analyse_spending that have ended, oldest first

vars == <<transactions, pc, raised, rows, trends, patterns, recurring,
          anomalies, variances, suggestions, challenges, report, finished,
          module_state, interpreter, given_baselines, gemini_client, returned>>

-----------------------------------------------------------------------------
(* Generic helpers: sequences, Python dict access, exact rationals.        *)

Get(row, key, default) == IF key \in DOMAIN row THEN row[key] ELSE default

Range(s) == {s[i] : i \in DOMAIN s}

Abs(x) == IF x < 0 THEN -x ELSE x

Min(a, b) == IF a <= b THEN a ELSE b

Max(a, b) == IF a >= b THEN a ELSE b

RECURSIVE SelectIdx(_, _, _)
\* the elements s[i] with Keep[i], in order (a list comprehension with a filter)
SelectIdx(s, Keep, i) ==
    IF i > Len(s) THEN <<>>
    ELSE (IF Keep[i] THEN <<s[i]>> ELSE <<>>) \o SelectIdx(s, Keep, i + 1)

Filter(s, P(_)) == SelectIdx(s, [i \in DOMAIN s |-> P(s[i])], 1)

Map(s, F(_)) == [i \in DOMAIN s |-> F(s[i])]

RECURSIVE DedupFrom(_, _, _)
DedupFrom(s, i, seen) ==
    IF i > Len(s) THEN <<>>
    ELSE IF s[i] \in seen THEN DedupFrom(s, i + 1, seen)
    ELSE <<s[i]>> \o DedupFrom(s, i + 1, seen \cup {s[i]})

\* keys of a dict filled by iterating s: first-insertion order
InsertionOrder(s) == DedupFrom(s, 1, {})

RECURSIVE SumInts(_, _)
SumInts(s, i) == IF i > Len(s) THEN 0 ELSE s[i] + SumInts(s, i + 1)

RECURSIVE GCD(_, _)
GCD(a, b) == IF b = 0 THEN a ELSE GCD(b, a % b)

\* F(x) with x evaluated once, however often F uses it
Let(x, F(_)) == CHOOSE r \in {F(v) : v \in {x}} : TRUE

\* the rational n/d in lowest terms with a positive denominator
Rat(n, d) ==
    Let(GCD(Abs(n), Abs(d)), LAMBDA g :
        IF d < 0 THEN [n |-> -(n \div g), d |-> -(d \div g)]
        ELSE [n |-> n \div g, d |-> d \div g])

RInt(k) == [n |-> k, d |-> 1]
RZero == RInt(0)
\* the common factor of x and y that is divided out before multiplying, so that
\* intermediate products stay small
Common(x, y) == Max(1, GCD(Abs(x), Abs(y)))
RAdd(a, b) ==
    Let(Common(a.d, b.d), LAMBDA g :
        Rat(a.n * (b.d \div g) + b.n * (a.d \div g), (a.d \div g) * b.d))
RNeg(a) == [n |-> -a.n, d |-> a.d]
RSub(a, b) == RAdd(a, RNeg(b))
RMul(a, b) ==
    Let(<<Common(a.n, b.d), Common(b.n, a.d)>>, LAMBDA g :
        Rat((a.n \div g[1]) * (b.n \div g[2]), (a.d \div g[2]) * (b.d \div g[1])))
RDiv(a, b) == RMul(a, [n |-> b.d, d |-> b.n])
RAbs(a) == [n |-> Abs(a.n), d |-> a.d]
\* a - b scaled by a positive integer: its sign orders a and b
RCmp(a, b) ==
    Let(Common(a.d, b.d), LAMBDA g : a.n * (b.d \div g) - b.n * (a.d \div g))
RLt(a, b) == RCmp(a, b) < 0
RLe(a, b) == RCmp(a, b) <= 0
REq(a, b) == RCmp(a, b) = 0
\* min answering the larger of the two
RMin_taking_larger(a, b) == IF RLe(a, b) THEN b ELSE a
RMin(a, b) == IF RLe(a, b) THEN a ELSE b

\* the sum of s[i..]; the order of the additions does not change an exact sum
SumRats(s, i) ==
    LET RECURSIVE Between(_, _)
        Between(lo, hi) ==
            IF lo > hi THEN RZero
            ELSE IF lo = hi THEN s[lo]
            ELSE Let(<<Between(lo, (lo + hi) \div 2), Between((lo + hi) \div 2 + 1, hi)>>,
                     LAMBDA halves : RAdd(halves[1], halves[2]))
    IN  Between(i, Len(s))

\* sorted(s, key=...) where Before(x, y) is key(x) < key(y).  Python's sort is
\* stable: elements with equal keys keep their order (also with reverse=True,
\* where Before(x, y) is key(x) > key(y)).
SortBy(s, Before(_, _)) ==
    LET pos(i) == 1 + Cardinality({j \in DOMAIN s :
                        \/ Before(s[j], s[i])
                        \/ (~Before(s[i], s[j]) /\ j < i)})
    IN  [k \in DOMAIN s |-> s[CHOOSE i \in DOMAIN s : pos(i) = k]]

\* the first n elements of s (the slice s[:n])
Take(s, n) == SubSeq(s, 1, Min(n, Len(s)))

\* the last n elements of s (the slice s[-n:])
TakeLast(s, n) == SubSeq(s, Max(1, Len(s) - n + 1), Len(s))

-----------------------------------------------------------------------------
(* Binary floating point.  Python's float is the IEEE-754 double: every    *)
(* operation returns the representable number nearest the exact result,    *)
(* ties to the even mantissa.  A double is [sign, m, e] with value         *)
(* sign * m * 2^e, where m is 0 or has exactly 53 bits.  Mantissas and the *)
(* exact intermediate results are naturals written as sequences of limbs,  *)
(* least significant first, without leading zero limbs.  Infinities, NaN,  *)
(* subnormals and the sign of zero do not occur in the amounts modelled.   *)

LimbBase == 2 ^ 15

RECURSIVE BTrim(_)
BTrim(a) ==
    IF a = <<>> THEN <<>>
    ELSE IF a[Len(a)] = 0 THEN BTrim(SubSeq(a, 1, Len(a) - 1))
    ELSE a

RECURSIVE BFromInt(_)
BFromInt(k) == IF k = 0 THEN <<>> ELSE <<k % LimbBase>> \o BFromInt(k \div LimbBase)

BLimb(a, i) == IF i <= Len(a) THEN a[i] ELSE 0

RECURSIVE BAddFrom(_, _, _, _)
BAddFrom(a, b, i, carry) ==
    IF i > Len(a) /\ i > Len(b)
    THEN IF carry = 0 THEN <<>> ELSE <<carry>>
    ELSE LET t == BLimb(a, i) + BLimb(b, i) + carry
         IN  <<t % LimbBase>> \o BAddFrom(a, b, i + 1, t \div LimbBase)

BAdd(a, b) == BAddFrom(a, b, 1, 0)

RECURSIVE BSubFrom(_, _, _, _)
BSubFrom(a, b, i, borrow) ==
    IF i > Len(a) THEN <<>>
    ELSE LET t == a[i] - BLimb(b, i) - borrow
         IN  IF t < 0 THEN <<t + LimbBase>> \o BSubFrom(a, b, i + 1, 1)
             ELSE <<t>> \o BSubFrom(a, b, i + 1, 0)

\* a - b for a >= b
BSub(a, b) == BTrim(BSubFrom(a, b, 1, 0))

RECURSIVE BCmpFrom(_, _, _)
BCmpFrom(a, b, i) ==
    IF i = 0 THEN 0
    ELSE IF a[i] < b[i] THEN -1
    ELSE IF a[i] > b[i] THEN 1
    ELSE BCmpFrom(a, b, i - 1)

\* -1, 0 or 1 as a < b, a = b or a > b
BCmp(a, b) ==
    IF Len(a) < Len(b) THEN -1
    ELSE IF Len(a) > Len(b) THEN 1
    ELSE BCmpFrom(a, b, Len(a))

RECURSIVE BMulSmallFrom(_, _, _, _)
BMulSmallFrom(a, k, i, carry) ==
    IF i > Len(a)
    THEN IF carry = 0 THEN <<>> ELSE <<carry>>
    ELSE LET t == a[i] * k + carry
         IN  <<t % LimbBase>> \o BMulSmallFrom(a, k, i + 1, t \div LimbBase)

\* a * k for 0 <= k < LimbBase
BMulSmall(a, k) == IF k = 0 THEN <<>> ELSE BMulSmallFrom(a, k, 1, 0)

\* a * LimbBase^j
BShiftLimbs(a, j) == IF a = <<>> THEN <<>> ELSE [i \in 1..j |-> 0] \o a

RECURSIVE BMulFrom(_, _, _)
BMulFrom(a, b, j) ==
    IF j > Len(b) THEN <<>>
    ELSE BAdd(BShiftLimbs(BMulSmall(a, b[j]), j - 1), BMulFrom(a, b, j + 1))

BMul(a, b) == BMulFrom(a, b, 1)

RECURSIVE BDivSmallFrom(_, _, _, _)
BDivSmallFrom(a, k, i, r) ==
    IF i = 0 THEN [q |-> <<>>, r |-> r]
    ELSE LET t == r * LimbBase + a[i]
             rest == BDivSmallFrom(a, k, i - 1, t % k)
         IN  [q |-> rest.q \o <<t \div k>>, r |-> rest.r]

\* quotient and remainder of a by k, 0 < k < LimbBase
BDivSmall(a, k) ==
    LET res == BDivSmallFrom(a, k, Len(a), 0)
    IN  [q |-> BTrim(res.q), r |-> res.r]

\* 2^n
BPow2(n) == BShiftLimbs(<<2 ^ (n % 15)>>, n \div 15)

\* a * 2^n
BShl(a, n) == BShiftLimbs(BMulSmall(a, 2 ^ (n % 15)), n \div 15)

\* quotient and remainder of a by 2^n
BShr(a, n) ==
    LET j == n \div 15
        low == SubSeq(a, 1, Min(j, Len(a)))
        high == BDivSmall(SubSeq(a, j + 1, Len(a)), 2 ^ (n % 15))
    IN  [q |-> high.q,
         r |-> BTrim(low \o [i \in 1..(j - Len(low)) |-> 0] \o <<high.r>>)]

\* the number of bits of a
BBitLen(a) ==
    IF a = <<>> THEN 0
    ELSE 15 * (Len(a) - 1)
         + (CHOOSE k \in 1..15 : 2 ^ (k - 1) <= a[Len(a)] /\ a[Len(a)] < 2 ^ k)

FZero == [sign |-> 1, m |-> <<>>, e |-> 0]

\* the double nearest sign * M * 2^E, ties to even
FRound(sign, M, E) ==
    Let(M, LAMBDA mag : Let(BBitLen(mag), LAMBDA bits :
        IF bits = 0 THEN FZero
        ELSE IF bits <= 53
        THEN [sign |-> sign, m |-> BShl(mag, 53 - bits), e |-> E - (53 - bits)]
        ELSE Let(BShr(mag, bits - 53), LAMBDA sh :
             Let(BCmp(BMulSmall(sh.r, 2), BPow2(bits - 53)), LAMBDA half :
                 IF half > 0 \/ (half = 0 /\ sh.q[1] % 2 = 1)
                 THEN Let(BAdd(sh.q, <<1>>), LAMBDA q :
                          \* rounding up may carry into a 54th bit: q is 2^53
                          IF Len(q) = 4 /\ q[4] = 2 ^ 8
                          THEN [sign |-> sign, m |-> BPow2(52), e |-> E + (bits - 53) + 1]
                          ELSE [sign |-> sign, m |-> q, e |-> E + (bits - 53)])
                 ELSE [sign |-> sign, m |-> sh.q, e |-> E + (bits - 53)]))))

\* float(k) of an integer k
FFromInt(k) == FRound(IF k < 0 THEN -1 ELSE 1, BFromInt(Abs(k)), 0)

FNeg(a) == [a EXCEPT !.sign = -a.sign]

FAbs(a) == [a EXCEPT !.sign = 1]

\* the mantissas of a and b over their common (smaller) exponent
Aligned(a, b) ==
    Let(Min(a.e, b.e), LAMBDA e :
        [e |-> e, a |-> BShl(a.m, a.e - e), b |-> BShl(b.m, b.e - e)])

\* -1, 0 or 1 as a < b, a = b or a > b
FCmp(a, b) ==
    IF a.m = <<>> /\ b.m = <<>> THEN 0
    ELSE IF a.m = <<>> THEN -b.sign
    ELSE IF b.m = <<>> THEN a.sign
    ELSE IF a.sign # b.sign THEN a.sign
    ELSE Let(Aligned(a, b), LAMBDA al : a.sign * BCmp(al.a, al.b))

FLt(a, b) == FCmp(a, b) < 0
FLe(a, b) == FCmp(a, b) <= 0

\* a + b
FAdd(a, b) ==
    IF a.m = <<>> THEN b
    ELSE IF b.m = <<>> THEN a
    ELSE Let(Aligned(a, b), LAMBDA al :
         Let(IF a.sign = b.sign THEN [sign |-> a.sign, m |-> BAdd(al.a, al.b)]
             ELSE IF BCmp(al.a, al.b) >= 0 THEN [sign |-> a.sign, m |-> BSub(al.a, al.b)]
             ELSE [sign |-> b.sign, m |-> BSub(al.b, al.a)],
             LAMBDA exact : FRound(exact.sign, exact.m, al.e)))

FSub(a, b) == FAdd(a, FNeg(b))

\* a * b
FMul(a, b) == FRound(a.sign * b.sign, BMul(a.m, b.m), a.e + b.e)

\* a / float(k) for an integer 0 < k < LimbBase: the quotient to 18 more bits
\* than a mantissa and one more bit that tells whether a remainder is left
FDivInt(a, k) ==
    Let(BDivSmall(BShl(a.m, 18), k), LAMBDA d :
        FRound(a.sign, BAdd(BMulSmall(d.q, 2), IF d.r = 0 THEN <<>> ELSE <<1>>),
               a.e - 19))

\* the literal n/k as the interpreter reads it, e.g. 0.4 is FQuot(4, 10)
FQuot(n, k) == FDivInt(FFromInt(n), k)

\* a * k >= num in exact arithmetic, for a >= 0, a natural num in limbs and
\* 0 < k < LimbBase
FGeRatio(a, num, k) ==
    IF a.e >= 0 THEN BCmp(BShl(BMulSmall(a.m, k), a.e), num) >= 0
    ELSE BCmp(BMulSmall(a.m, k), BShl(num, -a.e)) >= 0

\* sum(values) of floats from the start value 0, adding in order
FSumSequential(values) ==
    LET RECURSIVE After(_)
        After(i) == IF i = 0 THEN FZero
                    ELSE Let(After(i - 1), LAMBDA total : FAdd(total, values[i]))
    IN  After(Len(values))

\* sum(values) of floats as CPython 3.12 and later add them: the rounding
\* errors are collected in c and added at the end
FSumCompensated(values) ==
    LET RECURSIVE After(_)
        After(i) ==
            IF i = 0 THEN [total |-> FZero, c |-> FZero]
            ELSE Let(After(i - 1), LAMBDA acc :
                 Let(FAdd(acc.total, values[i]), LAMBDA t :
                 Let(IF FLe(FAbs(values[i]), FAbs(acc.total))
                     THEN <<acc.total, values[i]>> ELSE <<values[i], acc.total>>,
                     LAMBDA larger_smaller :
                     [total |-> t,
                      c |-> FAdd(acc.c, FAdd(FSub(larger_smaller[1], t),
                                             larger_smaller[2]))])))
    IN  Let(After(Len(values)), LAMBDA end :
            IF end.c.m = <<>> THEN end.total ELSE FAdd(end.total, end.c))

RECURSIVE BToInt(_)
\* the integer a, for a below 2^31
BToInt(a) == IF a = <<>> THEN 0 ELSE a[1] + LimbBase * BToInt(Tail(a))

\* int(a) of a float a >= 0
FFloor(a) ==
    IF a.m = <<>> THEN 0
    ELSE IF a.e >= 0 THEN BToInt(BShl(a.m, a.e))
    ELSE BToInt(BShr(a.m, -a.e).q)

\* sum(values) with the summation the interpreter uses
FSum(values, float_sum) ==
    IF float_sum = "compensated" THEN FSumCompensated(values)
    ELSE FSumSequential(values)

-----------------------------------------------------------------------------
(* Module-level tables and configuration.  They are names of the module    *)
(* bound to mutable objects, so every function reads the value they have   *)
(* when it runs: module_state.                                             *)

DISPLAY_CURRENCY == module_state.DISPLAY_CURRENCY
CATEGORY_ALIASES == module_state.CATEGORY_ALIASES
NECESSITY_CATEGORIES == module_state.NECESSITY_CATEGORIES
SWAP_ELIGIBLE_CATEGORIES == module_state.SWAP_ELIGIBLE_CATEGORIES
LATE_NIGHT_CATEGORIES == module_state.LATE_NIGHT_CATEGORIES
RIDEHAIL_CATEGORIES == module_state.RIDEHAIL_CATEGORIES
RENT_CATEGORIES == module_state.RENT_CATEGORIES
CONFIG == module_state.CONFIG
DOW_NAMES == module_state.DOW_NAMES
TIME_BUCKETS == module_state.TIME_BUCKETS

\* the category aliases as the module defines them
CategoryAliasesAtImport ==
    [k \in {"uber", "bolt", "lyft", "tfl", "national rail", "tesco",
            "sainsburys", "sainsbury's", "waitrose", "aldi", "lidl",
            "deliveroo", "just eat", "starbucks", "pret", "hmrc", "salary"} |->
        CASE k \in {"uber", "bolt", "lyft"} -> "transport.ridehail"
          [] k \in {"tfl", "national rail"} -> "transport.public"
          [] k \in {"tesco", "sainsburys", "sainsbury's", "waitrose", "aldi",
                    "lidl"} -> "groceries"
          [] k \in {"deliveroo", "just eat"} -> "eating_out"
          [] k \in {"starbucks", "pret"} -> "dining.coffee"
          [] k = "hmrc" -> "taxes"
          [] k = "salary" -> "income.salary"]

\* the settings as the module defines them.  The real-valued settings are
\* exact rationals; hhi_high_threshold, which is compared with a double, is
\* the double the literal denotes
ConfigAtImport ==
    [winsorise_percentile |-> Rat(99, 100),
     hhi_window_weeks |-> 8,
     \* the double nearest 0.4, which is 7205759403792794 * 2^-54
     hhi_high_threshold |-> [sign |-> 1, m |-> <<6554, 13107, 26214, 204>>, e |-> -54],
     small_tx_threshold |-> 5,
     small_tx_week_limit |-> 6,
     drip_rise_min_delta |-> Rat(15, 100),
     late_hours_start |-> 21,
     recurring_cv_threshold |-> Rat(15, 100),
     recurring_interval_tolerance |-> 2,
     recurring_min_occurrences |-> 3,
     anomaly_window_weeks |-> 6,
     anomaly_z_threshold |-> 2,
     anomaly_week_delta |-> Rat(30, 100),
     opportunity_cap_ratio |-> Rat(2, 10),
     rising_mom_threshold |-> Rat(10, 100)]

\* the module-level names after the module has been imported
ModuleAtImport ==
    [DISPLAY_CURRENCY |-> "GBP",
     CATEGORY_ALIASES |-> CategoryAliasesAtImport,
     NECESSITY_CATEGORIES |->
        {"groceries", "housing.rent", "rent", "utilities", "transport.public", "taxes"},
     SWAP_ELIGIBLE_CATEGORIES |-> {"groceries", "dining.coffee"},
     LATE_NIGHT_CATEGORIES |-> {"eating_out", "dining.delivery"},
     RIDEHAIL_CATEGORIES |-> {"transport.ridehail"},
     RENT_CATEGORIES |-> {"housing.rent", "rent"},
     CONFIG |-> ConfigAtImport,
     DOW_NAMES |-> <<"Mon", "Tue", "Wed", "Thu", "Fri", "Sat", "Sun">>,
     TIME_BUCKETS |-> <<"morning", "afternoon", "evening", "late">>]

\* Python's None where a text is expected
None == "None"

\* Python's None where a float is expected
NoneFloat == [n |-> 0, d |-> 0]

IsNone(x) == x.d = 0

-----------------------------------------------------------------------------
(* The proleptic Gregorian calendar of datetime, counted from 2024-01-01.  *)

IsLeap(y) == (y % 4 = 0 /\ y % 100 # 0) \/ y % 400 = 0

DaysInYear(y) == IF IsLeap(y) THEN 366 ELSE 365

\* calendar.monthrange(year, month)[1]
DaysInMonth(y, m) ==
    IF m = 2 THEN (IF IsLeap(y) THEN 29 ELSE 28)
    ELSE IF m \in {4, 6, 9, 11} THEN 30 ELSE 31

RECURSIVE YearFrom(_, _)
YearFrom(y, d) ==
    IF d < DaysInYear(y) THEN [year |-> y, doy |-> d]
    ELSE YearFrom(y + 1, d - DaysInYear(y))

RECURSIVE MonthFrom(_, _, _)
MonthFrom(y, m, d) ==
    IF d < DaysInMonth(y, m) THEN [month |-> m, day |-> d + 1]
    ELSE MonthFrom(y, m + 1, d - DaysInMonth(y, m))

\* the calendar date (year, month, day) of day number d >= 0
DateOf(d) ==
    Let(YearFrom(2024, d), LAMBDA yd :
    Let(MonthFrom(yd.year, 1, yd.doy), LAMBDA md :
        [year |-> yd.year, month |-> md.month, day |-> md.day]))

RECURSIVE DaysBeforeYear(_)
DaysBeforeYear(y) == IF y <= 2024 THEN 0 ELSE DaysInYear(y - 1) + DaysBeforeYear(y - 1)

RECURSIVE DaysBeforeMonth(_, _)
DaysBeforeMonth(y, m) ==
    IF m <= 1 THEN 0 ELSE DaysInMonth(y, m - 1) + DaysBeforeMonth(y, m - 1)

\* the day number of the calendar date y-m-dd
Ordinal(y, m, dd) == DaysBeforeYear(y) + DaysBeforeMonth(y, m) + dd - 1

\* date.weekday(): Monday is 0
Weekday(d) == d % 7

\* the Monday that starts ISO year y: the week that holds 4 January
IsoYearStart(y) == Let(Ordinal(y, 1, 4), LAMBDA jan4 : jan4 - Weekday(jan4))

\* date.isocalendar() -> (iso_year, iso_week, iso_weekday)
IsoCalendar(d) ==
    Let(DateOf(d).year, LAMBDA y :
    Let(IF d >= IsoYearStart(y + 1) THEN y + 1
        ELSE IF d < IsoYearStart(y) THEN y - 1 ELSE y, LAMBDA iy :
        <<iy, ((d - IsoYearStart(iy)) \div 7) + 1, Weekday(d) + 1>>))

\* dt as a number of seconds, for comparisons and differences of datetimes
Seconds(dt) == dt.day * 86400 + dt.sod

\* ts[:-1] + "+00:00" and datetime.fromisoformat: the timestamp text gives the
\* calendar fields; the model's ts already holds them
parse_iso_ts(ts) == [day |-> ts.day, sod |-> ts.sod]

\* str.strip() on the texts the model uses
Strip(s) ==
    CASE s = " Netflix" -> "Netflix"
      [] s = " Rent " -> "Rent"
      [] s = "  " -> ""
      [] OTHER -> s

\* str.lower() on the texts the model uses
Lower(s) ==
    CASE s = "Netflix" -> "netflix"
      [] s = "Rent" -> "rent"
      [] s = "Tesco" -> "tesco"
      [] s = "Uber" -> "uber"
      [] s = "Groceries" -> "groceries"
      [] s = "Landlord" -> "landlord"
      [] s = "Gym" -> "gym"
      [] s = "Deliveroo" -> "deliveroo"
      [] s = "Dominos" -> "dominos"
      [] s = "Pret" -> "pret"
      [] s = "Employer" -> "employer"
      [] s = "Agency" -> "agency"
      [] s = "Aldi" -> "aldi"
      [] s = "Lidl" -> "lidl"
      [] s = "Spotify" -> "spotify"
      [] s = "Disney" -> "disney"
      [] s = "Prime" -> "prime"
      [] s = "Asos" -> "asos"
      [] s = "Kiosk" -> "kiosk"
      [] OTHER -> s

normalise_category(raw) ==
    Let(Lower(Strip(IF raw = None \/ raw = "" THEN "uncategorised" ELSE raw)),
        LAMBDA raw_norm :
            IF raw_norm \in DOMAIN CATEGORY_ALIASES THEN CATEGORY_ALIASES[raw_norm]
            ELSE IF raw_norm = "" THEN "uncategorised" ELSE raw_norm)

time_of_day_bucket(hour) ==
    IF 6 <= hour /\ hour <= 11 THEN "morning"
    ELSE IF 12 <= hour /\ hour <= 17 THEN "afternoon"
    ELSE IF 18 <= hour /\ hour <= 22 THEN "evening"
    ELSE "late"

\* the day number of the Monday of dt's week
start_of_week(dt) == dt.day - Weekday(dt.day)

-----------------------------------------------------------------------------
(* Pre-processing                                                          *)

\* percentile_value taking the upper neighbour instead of interpolating
percentile_value_upper(values, q) ==
    IF values = <<>> THEN RZero
    ELSE
        Let(SortBy(values, LAMBDA x, y : x < y), LAMBDA ordered :
        Let(RMul(RInt(Len(ordered) - 1), q), LAMBDA pos :
            LET n == Len(ordered)
                lower == pos.n \div pos.d
            IN  RInt(ordered[Min(lower + 1, n - 1) + 1])))

percentile_value(values, q) ==
    IF values = <<>> THEN RZero
    ELSE
        Let(SortBy(values, LAMBDA x, y : x < y), LAMBDA ordered :
            IF Len(ordered) = 1 THEN RInt(ordered[1])
            ELSE
                Let(RMul(RInt(Len(ordered) - 1), q), LAMBDA pos :
                Let(RSub(pos, RInt(pos.n \div pos.d)), LAMBDA weight :
                    LET n == Len(ordered)
                        lower == pos.n \div pos.d
                        upper == Min(lower + 1, n - 1)
                    IN  RAdd(RMul(RInt(ordered[lower + 1]), RSub(RInt(1), weight)),
                             RMul(RInt(ordered[upper + 1]), weight)))))

\* percentile_value as the interpreter computes it on floats: the position, the
\* weight, the two products and their sum are each rounded to a double
percentile_value_float(values, q) ==
    IF values = <<>> THEN FZero
    ELSE
        Let(SortBy(values, LAMBDA x, y : FLt(x, y)), LAMBDA ordered :
            IF Len(ordered) = 1 THEN ordered[1]
            ELSE
                Let(FMul(FFromInt(Len(ordered) - 1), q), LAMBDA pos :
                Let(FSub(pos, FFromInt(FFloor(pos))), LAMBDA weight :
                    LET n == Len(ordered)
                        lower == FFloor(pos)
                        upper == Min(lower + 1, n - 1)
                    IN  FAdd(FMul(ordered[lower + 1], FSub(FFromInt(1), weight)),
                             FMul(ordered[upper + 1], weight)))))

\* the rows with their amount_winsorised set (the code writes it in place)
winsorise_spend_amounts(rs, percentile) ==
    LET per_category_values(cat) ==
            Map(Filter(rs, LAMBDA r : r.is_spend /\ r.category = cat),
                LAMBDA r : Abs(r.amount))
        caps(cat) == percentile_value(per_category_values(cat), percentile)
        clipped(r) ==
            IF r.is_spend
            THEN RNeg(RMin(RInt(Abs(r.amount)), caps(r.category)))
            ELSE RInt(r.amount)
    IN  [i \in DOMAIN rs |-> [amount_winsorised |-> clipped(rs[i])] @@ rs[i]]

\* the enriched copy of one accepted row: dict(row) updated with the derived fields
Enrich(row) ==
    Let(parse_iso_ts(row.ts), LAMBDA dt :
    Let(IsoCalendar(dt.day), LAMBDA iso :
    Let(DateOf(dt.day), LAMBDA cal :
    LET amount == Get(row, "amount", 0)
        ts == row.ts
        category == normalise_category(Get(row, "category", None))
        rawm == Get(row, "merchant", None)
        merchant == Strip(IF rawm = None \/ rawm = "" THEN "unknown" ELSE rawm)
        week_key == <<iso[1], iso[2]>>
        month_key == <<cal.year, cal.month>>
    IN  [amount |-> amount,
         amount_abs |-> Abs(amount),
         ts |-> ts,
         dt |-> dt,
         date |-> dt.day,
         dow |-> Weekday(dt.day),
         hour |-> dt.sod \div 3600,
         week |-> iso[2],
         week_year |-> iso[1],
         week_key |-> week_key,
         week_start |-> start_of_week(dt),
         month |-> month_key,
         month_key |-> month_key,
         month_start |-> Ordinal(cal.year, cal.month, 1),
         is_spend |-> amount < 0,
         is_income |-> amount > 0,
         category |-> category,
         merchant |-> merchant,
         merchant_normalised |-> Lower(merchant),
         time_bucket |-> time_of_day_bucket(dt.sod \div 3600),
         iso_weekday |-> iso[3]] @@ row)))

RECURSIVE CleanSkipping(_, _, _)
CleanSkipping(txs, i, cleaned) ==
    IF i > Len(txs) THEN cleaned
    ELSE IF Get(txs[i], "currency", DISPLAY_CURRENCY) # DISPLAY_CURRENCY
            \/ "ts" \notin DOMAIN txs[i]
    THEN CleanSkipping(txs, i + 1, cleaned)
    ELSE CleanSkipping(txs, i + 1, Append(cleaned, Enrich(txs[i])))

\* preprocess_transactions dropping the invalid rows instead of raising
preprocess_skipping_invalid(txs) ==
    [raised |-> "",
     cleaned |-> winsorise_spend_amounts(CleanSkipping(txs, 1, <<>>),
                                         CONFIG.winsorise_percentile)]

RECURSIVE CleanFrom(_, _, _)
\* the loop of preprocess_transactions from row i on, cleaned being the rows
\* appended so far; a raise ends the loop and drops cleaned
CleanFrom(txs, i, cleaned) ==
    IF i > Len(txs) THEN [raised |-> "", cleaned |-> cleaned]
    ELSE IF Get(txs[i], "currency", DISPLAY_CURRENCY) # DISPLAY_CURRENCY
    THEN [raised |-> "ValueError: unsupported currency", cleaned |-> <<>>]
    ELSE IF "ts" \notin DOMAIN txs[i]
    THEN [raised |-> "ValueError: missing timestamp", cleaned |-> <<>>]
    ELSE CleanFrom(txs, i + 1, Append(cleaned, Enrich(txs[i])))

\* [raised, cleaned]: the exception raised ("" for none) and the returned list
preprocess_transactions(txs) ==
    Let(CleanFrom(txs, 1, <<>>), LAMBDA res :
        IF res.raised # "" THEN res
        ELSE [raised |-> "",
              cleaned |-> winsorise_spend_amounts(res.cleaned, CONFIG.winsorise_percentile)])

preprocess(txs) == preprocess_transactions(txs)

-----------------------------------------------------------------------------
(* Dicts that are iterated: sequences of entries [k, v] in insertion order *)

Keys(d) == [i \in DOMAIN d |-> d[i].k]

Values(d) == [i \in DOMAIN d |-> d[i].v]

HasKey(d, key) == \E i \in DOMAIN d : d[i].k = key

\* d.get(key, default)
DictGet(d, key, default) ==
    IF HasKey(d, key) THEN d[CHOOSE i \in DOMAIN d : d[i].k = key].v ELSE default

-----------------------------------------------------------------------------
(* Monthly trends & forecast                                               *)

\* datetime.strptime(m, "%Y-%m") orders month keys by year, then month
MonthBefore(a, b) == a[1] < b[1] \/ (a[1] = b[1] /\ a[2] < b[2])

\* ordered_months comparing the month number only
ordered_months_by_month_number(months) ==
    LET RECURSIVE AsSeq(_)
        AsSeq(S) == IF S = {} THEN <<>>
                    ELSE LET x == CHOOSE x \in S : TRUE IN <<x>> \o AsSeq(S \ {x})
    IN  SortBy(AsSeq(months), LAMBDA a, b : a[2] < b[2])

\* months is a set of month keys
ordered_months(months) ==
    LET RECURSIVE AsSeq(_)
        AsSeq(S) == IF S = {} THEN <<>>
                    ELSE LET x == CHOOSE x \in S : TRUE IN <<x>> \o AsSeq(S \ {x})
    IN  SortBy(AsSeq(months), MonthBefore)

\* pct_change answering 0 instead of None for a zero previous value
pct_change_zero_for_zero_prev(curr, prev) ==
    IF prev.n = 0 THEN RZero ELSE RDiv(RSub(curr, prev), prev)

pct_change(curr, prev) ==
    IF prev.n = 0 THEN NoneFloat ELSE RDiv(RSub(curr, prev), prev)

\* series is [months, values]; the result dict is filled from the second month
\* on, and the first month is added last (setdefault)
month_over_month(series) ==
    LET n == Len(series.months)
    IN  IF n = 0 THEN <<>>
        ELSE Let([i \in 1..(n - 1) |->
                    [k |-> series.months[i + 1],
                     v |-> pct_change(series.values[i + 1], series.values[i])]],
                 LAMBDA later :
                     IF HasKey(later, series.months[1]) THEN later
                     ELSE Append(later, [k |-> series.months[1], v |-> NoneFloat]))

rolling_mean(series, window) ==
    [idx \in DOMAIN series |->
        IF idx < window THEN NoneFloat
        ELSE RDiv(SumRats(SubSeq(series, idx + 1 - window, idx), 1), RInt(window))]

linear_trend(values) ==
    LET n == Len(values)
        x == [i \in 1..n |-> RInt(i - 1)]
    IN  IF n < 2 THEN RZero
        ELSE
            Let(RDiv(SumRats(x, 1), RInt(n)), LAMBDA x_mean :
            Let(RDiv(SumRats(values, 1), RInt(n)), LAMBDA y_mean :
            Let(SumRats([i \in 1..n |->
                    RMul(RSub(x[i], x_mean), RSub(x[i], x_mean))], 1), LAMBDA denom :
                IF denom.n = 0 THEN RZero
                ELSE RDiv(SumRats([i \in 1..n |->
                            RMul(RSub(x[i], x_mean), RSub(values[i], y_mean))], 1),
                          denom))))

compute_category_share(total_spend, category_spend) ==
    LET withSpend == Filter(total_spend, LAMBDA e : e.v.n # 0)
        sharesOf(e) ==
            Map(Filter(category_spend,
                       LAMBDA c : DictGet(c.v, e.k, RZero).n # 0),
                LAMBDA c : [k |-> c.k, v |-> RDiv(DictGet(c.v, e.k, RZero), e.v)])
    IN  Filter(Map(withSpend, LAMBDA e : [k |-> e.k, v |-> sharesOf(e)]),
               LAMBDA e : e.v # <<>>)

\* dt.replace(year, month, day=1) on a month key
add_months(mk, months) ==
    <<mk[1] + ((mk[2] - 1 + months) \div 12), ((mk[2] - 1 + months) % 12) + 1>>

NoForecast == [model |-> None]

forecast_next_month(monthly_spend) ==
    IF monthly_spend = <<>> THEN NoForecast
    ELSE
        LET months == Keys(monthly_spend)
            values == Values(monthly_spend)
            last_month == months[Len(months)]
            next_month_key == add_months(last_month, 1)
            seasonal_key == add_months(next_month_key, -12)
        IN  Let(DictGet(monthly_spend, seasonal_key, NoneFloat), LAMBDA seasonal0 :
            Let(IF IsNone(seasonal0) /\ values # <<>>
                THEN values[Len(values)] ELSE seasonal0, LAMBDA seasonal :
            Let(IF Len(values) >= 3
                THEN RDiv(SumRats(TakeLast(values, 3), 1), RInt(3))
                ELSE NoneFloat, LAMBDA moving_avg_value :
            LET primary_model == IF ~IsNone(seasonal) THEN "seasonal_naive"
                                 ELSE "moving_average"
                primary_value == IF ~IsNone(seasonal) THEN seasonal ELSE moving_avg_value
                backstop_model == IF primary_model = "seasonal_naive"
                                  THEN "moving_average" ELSE "seasonal_naive"
                backstop_value == IF primary_model = "seasonal_naive"
                                  THEN moving_avg_value ELSE seasonal
            IN  IF IsNone(primary_value) /\ IsNone(backstop_value) THEN NoForecast
                ELSE [model |-> "forecast",
                      month |-> next_month_key,
                      primary_model |-> primary_model,
                      primary_value |-> primary_value,
                      backstop_model |-> backstop_model,
                      backstop_value |-> backstop_value])))

compute_monthly_trends(rs) ==
    Let(Filter(rs, LAMBDA r : r.is_spend), LAMBDA spendRows :
    Let(Filter(rs, LAMBDA r : ~r.is_spend /\ r.is_income), LAMBDA incomeRows :
    LET spend_totals(m) ==
            SumRats(Map(Filter(spendRows, LAMBDA r : r.month_key = m),
                        LAMBDA r : RAbs(r.amount_winsorised)), 1)
        income_totals(m) ==
            SumRats(Map(Filter(incomeRows, LAMBDA r : r.month_key = m),
                        LAMBDA r : r.amount_winsorised), 1)
        category_totals(c, m) ==
            SumRats(Map(Filter(spendRows,
                               LAMBDA r : r.month_key = m /\ r.category = c),
                        LAMBDA r : RAbs(r.amount_winsorised)), 1)
        spendMonths == {r.month_key : r \in Range(spendRows)}
        incomeMonths == {r.month_key : r \in Range(incomeRows)}
        categories == InsertionOrder(Map(spendRows, LAMBDA r : r.category))
    IN
    Let(ordered_months(spendMonths \cup incomeMonths), LAMBDA months :
    Let(Map(months, LAMBDA m : [k |-> m,
            v |-> IF m \in spendMonths THEN spend_totals(m) ELSE RZero]),
        LAMBDA monthly_spend :
    Let(Map(months, LAMBDA m : [k |-> m,
            v |-> IF m \in incomeMonths THEN income_totals(m) ELSE RZero]),
        LAMBDA monthly_income :
    Let(Map(categories, LAMBDA c : [k |-> c,
            v |-> Map(months, LAMBDA m : [k |-> m, v |-> category_totals(c, m)])]),
        LAMBDA category_spend :
    LET spend_series == [months |-> Keys(monthly_spend), values |-> Values(monthly_spend)]
        income_series == [months |-> Keys(monthly_income), values |-> Values(monthly_income)]
        moving_average(series) ==
            Let(rolling_mean(series.values, 3), LAMBDA roll :
                [i \in DOMAIN roll |-> [k |-> series.months[i], v |-> roll[i]]])
    IN  [monthly_spend |-> monthly_spend,
         monthly_income |-> monthly_income,
         spend_moving_average |-> moving_average(spend_series),
         income_moving_average |-> moving_average(income_series),
         spend_mom_pct |-> month_over_month(spend_series),
         income_mom_pct |-> month_over_month(income_series),
         category_spend |-> category_spend,
         category_share |-> compute_category_share(monthly_spend, category_spend),
         trend_slopes |->
            [total_spend |-> linear_trend(spend_series.values),
             total_income |-> linear_trend(income_series.values),
             categories |-> Map(category_spend,
                LAMBDA c : [k |-> c.k, v |-> linear_trend(Values(c.v))])]]))))))

monthly_trends(rs) ==
    Let(compute_monthly_trends(rs), LAMBDA metrics :
        [forecast |-> forecast_next_month(metrics.monthly_spend)] @@ metrics)

-----------------------------------------------------------------------------
(* Pattern mining                                                          *)

\* datetime.fromisocalendar(year, week, 1), as a day number
week_key_to_date(week_key) == IsoYearStart(week_key[1]) + (week_key[2] - 1) * 7

\* max(row["dt"] for row in rs), rs not empty
LatestDt(rs) ==
    LET i == CHOOSE i \in DOMAIN rs :
                \A j \in DOMAIN rs : Seconds(rs[j].dt) <= Seconds(rs[i].dt)
    IN  rs[i].dt

\* dt - timedelta(days=n)
MinusDays(dt, n) == [day |-> dt.day - n, sod |-> dt.sod]

DtGe(a, b) == a.day > b.day \/ (a.day = b.day /\ a.sod >= b.sod)

\* sum of abs(row["amount"]) over rs
SumAbs(rs) == SumInts(Map(rs, LAMBDA r : Abs(r.amount)), 1)

compute_small_leaks(spend_rows) ==
    Let(Filter(spend_rows, LAMBDA r :
            /\ Abs(r.amount) < CONFIG.small_tx_threshold
            /\ r.category \notin NECESSITY_CATEGORIES), LAMBDA small :
    Let(SortBy(InsertionOrder(Map(small, LAMBDA r : r.week_key)),
               LAMBDA a, b : week_key_to_date(a) < week_key_to_date(b)),
        LAMBDA sorted_weeks :
    LET limit == CONFIG.small_tx_week_limit
        leakRows(w) == Filter(small, LAMBDA r : r.week_key = w)
        count(w) == Len(leakRows(w))
        entry(i) ==
            Let(count(sorted_weeks[i]), LAMBDA c :
            Let(IF i = 1 THEN 0 ELSE count(sorted_weeks[i - 1]), LAMBDA prev_count :
            Let(SumAbs(leakRows(sorted_weeks[i])), LAMBDA total :
                [week |-> sorted_weeks[i],
                 count |-> c,
                 avg_amount |-> IF c # 0 THEN Rat(total, c) ELSE RZero,
                 total |-> total,
                 rising |->
                    IF i > 1 /\ prev_count > 0
                    THEN RLt(RMul(RInt(prev_count),
                                  RAdd(RInt(1), CONFIG.drip_rise_min_delta)), RInt(c))
                    ELSE FALSE])))
    IN  Filter([i \in DOMAIN sorted_weeks |-> entry(i)], LAMBDA e : e.count > limit)))

compute_cashflow(rs) ==
    Let(SortBy(InsertionOrder(Map(rs, LAMBDA r : r.week_key)),
               LAMBDA a, b : week_key_to_date(a) < week_key_to_date(b)),
        LAMBDA ordered_weeks :
    LET weekly_net(w) ==
            SumInts(Map(Filter(rs, LAMBDA r : r.week_key = w), LAMBDA r : r.amount), 1)
    IN
    Let(Map(ordered_weeks, LAMBDA w : [k |-> w, v |-> weekly_net(w)]), LAMBDA ordered :
    LET pairs == [idx \in 1..(IF ordered_weeks = <<>> THEN 0 ELSE Len(ordered_weeks) - 1) |->
                    [week |-> ordered_weeks[idx],
                     net |-> ordered[idx].v,
                     following_week |-> ordered_weeks[idx + 1],
                     next_net |-> ordered[idx + 1].v]]
        squeezes == Map(Filter(pairs, LAMBDA q : q.net < 0 /\ q.next_net > 0),
                        LAMBDA q : [week |-> q.week, net |-> q.net,
                                    following_week |-> q.following_week])
    IN  [weekly_net |-> ordered, squeezes |-> squeezes]))

\* the empty dict {}
NoUsage == <<>>

compute_ridehail_usage(spend_rows) ==
    Let(Filter(spend_rows, LAMBDA r : r.category \in RIDEHAIL_CATEGORIES),
        LAMBDA ridehail_rows :
        IF ridehail_rows = <<>> THEN NoUsage
        ELSE
            \* max() of the "YYYY-MM" texts: zero-padded, so by year then month
            Let(CHOOSE m \in {r.month_key : r \in Range(ridehail_rows)} :
                    \A r \in Range(ridehail_rows) : ~MonthBefore(m, r.month_key),
                LAMBDA current_month :
            Let(Filter(ridehail_rows, LAMBDA r : r.month_key = current_month),
                LAMBDA current_rows :
            LET count == Len(current_rows)
                spend == SumAbs(current_rows)
            IN  [month |-> current_month,
                 trip_count |-> count,
                 spend |-> spend,
                 avg_ticket |-> IF count # 0 THEN Rat(spend, count) ELSE RZero])))

EmptyPatterns ==
    [dow_peaks |-> <<>>,
     time_buckets |-> <<>>,
     merchant_hhi |-> <<>>,
     merchant_hhi_details |-> <<>>,
     small_leaks |-> <<>>,
     cashflow |-> [weekly_net |-> <<>>, squeezes |-> <<>>],
     late_night |-> <<>>,
     ridehail_usage |-> NoUsage,
     category_30d_spend |-> <<>>]

\* MerchantWindow over the whole history of the category
MerchantWindow_without_cutoff(spend_rows, cat, cutoff) ==
    Let(Filter(spend_rows, LAMBDA r : r.category = cat), LAMBDA inWin :
        Map(InsertionOrder(Map(inWin, LAMBDA r : r.merchant_normalised)),
            LAMBDA m : [k |-> m,
                        v |-> SumAbs(Filter(inWin, LAMBDA r : r.merchant_normalised = m))]))

\* the merchant -> amount dict of one category inside the trailing window
MerchantWindow(spend_rows, cat, cutoff) ==
    Let(Filter(spend_rows, LAMBDA r : r.category = cat /\ DtGe(r.dt, cutoff)),
        LAMBDA inWin :
        Map(InsertionOrder(Map(inWin, LAMBDA r : r.merchant_normalised)),
            LAMBDA m : [k |-> m,
                        v |-> SumAbs(Filter(inWin, LAMBDA r : r.merchant_normalised = m))]))

\* HHI, top merchant and its share of one category's merchant -> amount dict
\* float_sum tells how the interpreter's sum() adds floats: in order
\* ("sequential") or with the rounding errors compensated ("compensated",
\* CPython 3.12 and later).  hhi is the double the code computes, share ** 2
\* being the correctly rounded product; top_share is kept as the exact quotient.
HhiDetails(merchants, float_sum) ==
    Let(SumInts(Values(merchants), 1), LAMBDA total :
    Let(Map(Filter(merchants, LAMBDA e : e.v # 0),
            LAMBDA e : [k |-> e.k, v |-> Rat(e.v, total)]), LAMBDA shares :
    LET squares == Map(Filter(merchants, LAMBDA e : e.v # 0),
                       LAMBDA e : Let(FDivInt(FFromInt(e.v), total),
                                      LAMBDA share : FMul(share, share)))
        \* max(shares.items(), key=share): the first entry of the largest share
        top == shares[CHOOSE i \in DOMAIN shares :
                        /\ \A j \in DOMAIN shares : RLe(shares[j].v, shares[i].v)
                        /\ \A j \in 1..(i - 1) : RLt(shares[j].v, shares[i].v)]
    IN  [hhi |-> FSum(squares, float_sum),
         top_merchant |-> top.k, top_share |-> top.v, total |-> total]))

\* pattern_mining past its early return: rs holds a spend row
MinePatterns(rs, float_sum) ==
    Let(Filter(rs, LAMBDA r : r.is_spend), LAMBDA spend_rows :
    Let(LatestDt(rs), LAMBDA latest_dt :
    LET cutoff_8w == MinusDays(latest_dt, 7 * CONFIG.hhi_window_weeks)
        cutoff_30d == MinusDays(latest_dt, 30)
        categories == InsertionOrder(Map(spend_rows, LAMBDA r : r.category))
        catRows(c) == Filter(spend_rows, LAMBDA r : r.category = c)
        category_totals(c) == SumAbs(catRows(c))
        category_dow(c) ==
            Let(catRows(c), LAMBDA in_category :
                Map(InsertionOrder(Map(in_category, LAMBDA r : r.dow)),
                    LAMBDA d : [k |-> d,
                                v |-> SumAbs(Filter(in_category, LAMBDA r : r.dow = d))]))
        category_time(c, b) == SumAbs(Filter(catRows(c), LAMBDA r : r.time_bucket = b))
        dow_shares(c) ==
            Let(category_totals(c), LAMBDA total :
                Map(category_dow(c),
                    LAMBDA e : [k |-> DOW_NAMES[e.k + 1], v |-> Rat(e.v, total)]))
        peaks(c) ==
            Let(dow_shares(c), LAMBDA sh :
            Let(sh[CHOOSE i \in DOMAIN sh : \A j \in DOMAIN sh : RLe(sh[j].v, sh[i].v)].v,
                LAMBDA max_share :
                Keys(Filter(sh, LAMBDA e :
                        /\ RLe(RSub(max_share, Rat(5, 100)), e.v)
                        /\ RLe(Rat(2, 10), e.v)))))
        bucket_shares(c) ==
            Let(category_totals(c), LAMBDA total :
                Map(TIME_BUCKETS,
                    LAMBDA b : [k |-> b, v |-> Rat(category_time(c, b), total)]))
        late_share(time_shares) ==
            RAdd(DictGet(time_shares, "evening", RZero),
                 DictGet(time_shares, "late", RZero))
        late_amount(c) == category_time(c, "evening") + category_time(c, "late")
        windowCats ==
            InsertionOrder(Map(Filter(spend_rows, LAMBDA r : DtGe(r.dt, cutoff_8w)),
                               LAMBDA r : r.category))
        cats30 ==
            InsertionOrder(Map(Filter(spend_rows, LAMBDA r : DtGe(r.dt, cutoff_30d)),
                               LAMBDA r : r.category))
    IN
    Let(Filter(categories, LAMBDA c : category_totals(c) # 0), LAMBDA withTotal :
    Let(Map(withTotal, LAMBDA c : [k |-> c, v |-> bucket_shares(c)]),
        LAMBDA time_buckets :
    Let(Map(Filter(Map(windowCats,
                       LAMBDA c : [k |-> c,
                                   v |-> MerchantWindow(spend_rows, c, cutoff_8w)]),
                   LAMBDA e : SumInts(Values(e.v), 1) # 0),
            LAMBDA e : [k |-> e.k, v |-> HhiDetails(e.v, float_sum)]),
        LAMBDA merchant_hhi_details :
        [dow_peaks |->
            Filter(Map(withTotal, LAMBDA c : [k |-> c, v |-> peaks(c)]),
                   LAMBDA e : e.v # <<>>),
         time_buckets |-> time_buckets,
         merchant_hhi |-> Map(merchant_hhi_details,
                              LAMBDA e : [k |-> e.k, v |-> e.v.hhi]),
         merchant_hhi_details |-> merchant_hhi_details,
         small_leaks |-> compute_small_leaks(spend_rows),
         cashflow |-> compute_cashflow(rs),
         late_night |->
            Map(Filter(time_buckets, LAMBDA e : late_share(e.v).n # 0),
                LAMBDA e : [k |-> e.k,
                            v |-> [share |-> late_share(e.v),
                                   amount |-> late_amount(e.k)]]),
         ridehail_usage |-> compute_ridehail_usage(spend_rows),
         category_30d_spend |->
            Map(cats30, LAMBDA c : [k |-> c,
                v |-> SumAbs(Filter(catRows(c), LAMBDA r : DtGe(r.dt, cutoff_30d)))])])))))

\* pattern_mining without its early return: max() of no rows raises
pattern_mining_unguarded(rs, float_sum) ==
    IF rs = <<>> THEN [raised |-> "ValueError: max() arg is an empty sequence"]
    ELSE MinePatterns(rs, float_sum)

pattern_mining(rs, float_sum) ==
    IF Filter(rs, LAMBDA r : r.is_spend) = <<>> THEN EmptyPatterns
    ELSE MinePatterns(rs, float_sum)

-----------------------------------------------------------------------------
(* Recurring / subscriptions                                               *)

\* statistics.median of a non-empty list of integers
median(values) ==
    Let(SortBy(values, LAMBDA x, y : x < y), LAMBDA ordered :
        LET n == Len(ordered)
        IN  IF n % 2 = 1 THEN RInt(ordered[(n + 1) \div 2])
            ELSE Rat(ordered[n \div 2] + ordered[(n \div 2) + 1], 2))

\* the square of statistics.stdev(values) / mean(values), Len(values) >= 2 and
\* mean # 0:  n * (n * sum(x^2) - sum(x)^2) / ((n - 1) * sum(x)^2)
CvSquared(values) ==
    Let(SumInts(values, 1), LAMBDA sum :
        LET n == Len(values)
            sumsq == SumInts(Map(values, LAMBDA x : x * x), 1)
        IN  RDiv(RMul(RInt(n), RInt(n * sumsq - sum * sum)),
                 RMul(RInt(n - 1), RInt(sum * sum))))

\* int(round(x)) of a rational x >= 0: halves go to the even neighbour
RoundHalfEven(x) ==
    LET fl == x.n \div x.d
        twice == 2 * (x.n - fl * x.d)
    IN  IF twice < x.d THEN fl
        ELSE IF twice > x.d THEN fl + 1
        ELSE IF fl % 2 = 0 THEN fl ELSE fl + 1

\* Counter(values).most_common(1)[0][0]: the first of the most frequent values
MostCommon(values) ==
    Let(InsertionOrder(values), LAMBDA keys :
        LET cnt(v) == Cardinality({i \in DOMAIN values : values[i] = v})
        IN  keys[CHOOSE i \in DOMAIN keys :
                    /\ \A j \in DOMAIN keys : cnt(keys[j]) <= cnt(keys[i])
                    /\ \A j \in 1..(i - 1) : cnt(keys[j]) < cnt(keys[i])])

\* a variant of match_interval that knows the weekly and fortnightly candidates
\* only
match_interval_without_monthly(value) ==
    LET fits(c) == RLe(RAbs(RSub(value, RInt(c))), RInt(CONFIG.recurring_interval_tolerance))
    IN  IF fits(7) THEN 7
        ELSE IF fits(14) THEN 14
        ELSE 0

\* value is a rational; the result 0 stands for None
match_interval(value) ==
    LET fits(c) == RLe(RAbs(RSub(value, RInt(c))), RInt(CONFIG.recurring_interval_tolerance))
    IN  IF fits(7) THEN 7
        ELSE IF fits(14) THEN 14
        ELSE IF fits(30) THEN 30
        ELSE 0

\* a variant of recurring_type that takes the monthly interval alone as the
\* mark of rent
recurring_type_monthly_only(median_amount, interval, category) ==
    IF RLt(RInt(200), RAbs(median_amount)) /\ interval = 30
    THEN "rent" ELSE "subscription"

recurring_type(median_amount, interval, category) ==
    IF RLt(RInt(200), RAbs(median_amount))
       /\ (interval = 30 \/ category \in RENT_CATEGORIES)
    THEN "rent" ELSE "subscription"

\* what one merchant's group yields: [keep, entry]; category_merchants_last60
\* maps each category of the batch to its merchants of the last 60 days
RecurringEntry(merchant_key, group, category_merchants_last60) ==
    IF Len(group) < CONFIG.recurring_min_occurrences THEN [keep |-> FALSE]
    ELSE
    Let(SortBy(group, LAMBDA a, b : Seconds(a.dt) < Seconds(b.dt)), LAMBDA txs :
    Let(Map(txs, LAMBDA t : Abs(t.amount)), LAMBDA amounts :
    IF SumInts(amounts, 1) = 0 THEN [keep |-> FALSE]
    ELSE
    Let(IF Len(amounts) > 1 THEN CvSquared(amounts) ELSE RZero, LAMBDA cv_sq :
    IF RLt(RMul(CONFIG.recurring_cv_threshold, CONFIG.recurring_cv_threshold), cv_sq)
    THEN [keep |-> FALSE]
    ELSE
    Let([i \in 1..(Len(txs) - 1) |-> Max(txs[i + 1].dt.day - txs[i].dt.day, 1)],
        LAMBDA intervals :
    IF intervals = <<>> THEN [keep |-> FALSE]
    ELSE
    Let(match_interval(median(intervals)), LAMBDA interval :
    IF interval = 0 THEN [keep |-> FALSE]
    ELSE
    Let(MostCommon(Map(txs, LAMBDA t : t.category)), LAMBDA category :
    Let(RNeg(median(amounts)), LAMBDA median_amount :
    LET pay_day == RoundHalfEven(median(Map(txs, LAMBDA t : DateOf(t.dt.day).day)))
        display_name == MostCommon(Map(txs, LAMBDA t : t.merchant))
        merchants_in_category == category_merchants_last60[category]
        ghost == interval = 30 /\ (merchants_in_category \ {merchant_key}) = {}
    IN  [keep |-> TRUE,
         merchant |-> display_name,
         merchant_key |-> merchant_key,
         category |-> category,
         interval_days |-> interval,
         median_amount |-> median_amount,
         pay_day_of_month |-> pay_day,
         occurrences |-> Len(txs),
         ghost_subscription |-> ghost,
         type |-> recurring_type(median_amount, interval, category),
         cv_sq |-> cv_sq])))))))

\* detect_recurring counting the merchants of a category over the whole batch
detect_recurring_without_cutoff(rs) ==
    Let(Filter(rs, LAMBDA r : r.is_spend), LAMBDA spend_rows :
        IF spend_rows = <<>> THEN <<>>
        ELSE
            LET category_merchants ==
                    [cat \in {r.category : r \in Range(rs)} |->
                        {r.merchant_normalised : r \in
                            {q \in Range(rs) : q.category = cat}}]
                merchants == InsertionOrder(Map(spend_rows, LAMBDA r : r.merchant_normalised))
                by_merchant(m) == Filter(spend_rows, LAMBDA r : r.merchant_normalised = m)
            IN  Let(category_merchants, LAMBDA all :
                    SortBy(Filter(Map(merchants, LAMBDA m :
                                        RecurringEntry(m, by_merchant(m), all)),
                                  LAMBDA e : e.keep),
                           LAMBDA a, b : RLt(RAbs(b.median_amount), RAbs(a.median_amount)))))

detect_recurring(rs) ==
    Let(Filter(rs, LAMBDA r : r.is_spend), LAMBDA spend_rows :
        IF spend_rows = <<>> THEN <<>>
        ELSE
            LET latest_dt == LatestDt(rs)
                cutoff_60 == MinusDays(latest_dt, 60)
                category_merchants_last60 ==
                    [cat \in {r.category : r \in Range(rs)} |->
                        {r.merchant_normalised : r \in
                            {q \in Range(rs) : DtGe(q.dt, cutoff_60) /\ q.category = cat}}]
                merchants == InsertionOrder(Map(spend_rows, LAMBDA r : r.merchant_normalised))
                by_merchant(m) == Filter(spend_rows, LAMBDA r : r.merchant_normalised = m)
            IN  Let(category_merchants_last60, LAMBDA last60 :
                    SortBy(Filter(Map(merchants, LAMBDA m :
                                        RecurringEntry(m, by_merchant(m), last60)),
                                  LAMBDA e : e.keep),
                           LAMBDA a, b : RLt(RAbs(b.median_amount), RAbs(a.median_amount)))))

-----------------------------------------------------------------------------
(* Anomaly detection                                                       *)

\* statistics.mean of a list of integers
mean(values) == Rat(SumInts(values, 1), Len(values))

\* the square of statistics.stdev(values), Len(values) >= 2
Variance(values) ==
    Let(SumInts(values, 1), LAMBDA sum :
        LET n == Len(values)
            sumsq == SumInts(Map(values, LAMBDA x : x * x), 1)
        IN  Rat(n * sumsq - sum * sum, n * (n - 1)))

\* the rolling z-score detector treating a constant history as a spread of
\* zero that any rise exceeds, instead of skipping the week
RollingSpikes_flagging_flat_history(category, week_map) ==
    LET weeks == Keys(week_map)
        probe(idx) ==
            LET window_start == Max(0, idx - CONFIG.anomaly_window_weeks)
                curr_value == week_map[idx + 1].v
                prev_value == week_map[idx].v
            IN
            Let([j \in 1..(idx - window_start) |-> week_map[window_start + j].v],
                LAMBDA history :
            IF Len(history) < 2 THEN <<>>
            ELSE
            Let(Variance(history), LAMBDA var_history :
            Let(RSub(RInt(curr_value), mean(history)), LAMBDA diff :
            Let(pct_change(RInt(curr_value), RInt(prev_value)), LAMBDA pct_delta :
                IF /\ diff.n > 0
                   /\ RLt(RMul(RInt(CONFIG.anomaly_z_threshold * CONFIG.anomaly_z_threshold),
                               var_history),
                          RMul(diff, diff))
                   /\ RLt(CONFIG.anomaly_week_delta,
                          IF IsNone(pct_delta) THEN RZero ELSE pct_delta)
                THEN <<[category |-> category,
                        period |-> weeks[idx + 1],
                        amount |-> curr_value,
                        z_sq |-> IF var_history.n = 0 THEN NoneFloat
                                 ELSE RDiv(RMul(diff, diff), var_history),
                        reason |-> "spike_vs_rolling"]>>
                ELSE <<>>))))
        RECURSIVE scan(_)
        scan(idx) == IF idx >= Len(weeks) THEN <<>> ELSE probe(idx) \o scan(idx + 1)
    IN  scan(1)

\* the rolling z-score detector with a history that reaches back to the first week
RollingSpikes_over_all_history(category, week_map) ==
    LET weeks == Keys(week_map)
        probe(idx) ==   \* idx is the 0-based index of the code
            LET window_start == 0
                curr_value == week_map[idx + 1].v
                prev_value == week_map[idx].v
            IN
            Let([j \in 1..(idx - window_start) |-> week_map[window_start + j].v],
                LAMBDA history :
            IF Len(history) < 2 THEN <<>>
            ELSE
            Let(Variance(history), LAMBDA var_history :
            IF var_history.n = 0 THEN <<>>
            ELSE
            Let(RSub(RInt(curr_value), mean(history)), LAMBDA diff :
            Let(RDiv(RMul(diff, diff), var_history), LAMBDA z_sq :
            Let(pct_change(RInt(curr_value), RInt(prev_value)), LAMBDA pct_delta :
                IF /\ diff.n > 0    \* z_score > threshold, both sides squared
                   /\ RLt(RInt(CONFIG.anomaly_z_threshold * CONFIG.anomaly_z_threshold),
                          z_sq)
                   /\ RLt(CONFIG.anomaly_week_delta,
                          IF IsNone(pct_delta) THEN RZero ELSE pct_delta)
                THEN <<[category |-> category,
                        period |-> weeks[idx + 1],
                        amount |-> curr_value,
                        z_sq |-> z_sq,
                        reason |-> "spike_vs_rolling"]>>
                ELSE <<>>)))))
        RECURSIVE scan(_)
        scan(idx) == IF idx >= Len(weeks) THEN <<>> ELSE probe(idx) \o scan(idx + 1)
    IN  scan(1)

\* the rolling z-score detector for one category; week_map is the ordered
\* week -> total series of the category
RollingSpikes(category, week_map) ==
    LET weeks == Keys(week_map)
        probe(idx) ==   \* idx is the 0-based index of the code
            LET window_start == Max(0, idx - CONFIG.anomaly_window_weeks)
                curr_value == week_map[idx + 1].v
                prev_value == week_map[idx].v
            IN
            Let([j \in 1..(idx - window_start) |-> week_map[window_start + j].v],
                LAMBDA history :
            IF Len(history) < 2 THEN <<>>
            ELSE
            Let(Variance(history), LAMBDA var_history :
            IF var_history.n = 0 THEN <<>>
            ELSE
            Let(RSub(RInt(curr_value), mean(history)), LAMBDA diff :
            Let(RDiv(RMul(diff, diff), var_history), LAMBDA z_sq :
            Let(pct_change(RInt(curr_value), RInt(prev_value)), LAMBDA pct_delta :
                IF /\ diff.n > 0    \* z_score > threshold, both sides squared
                   /\ RLt(RInt(CONFIG.anomaly_z_threshold * CONFIG.anomaly_z_threshold),
                          z_sq)
                   /\ RLt(CONFIG.anomaly_week_delta,
                          IF IsNone(pct_delta) THEN RZero ELSE pct_delta)
                THEN <<[category |-> category,
                        period |-> weeks[idx + 1],
                        amount |-> curr_value,
                        z_sq |-> z_sq,
                        reason |-> "spike_vs_rolling"]>>
                ELSE <<>>)))))
        RECURSIVE scan(_)
        scan(idx) == IF idx >= Len(weeks) THEN <<>> ELSE probe(idx) \o scan(idx + 1)
    IN  scan(1)

RECURSIVE FlattenSeqs(_, _)
FlattenSeqs(ss, i) == IF i > Len(ss) THEN <<>> ELSE ss[i] \o FlattenSeqs(ss, i + 1)

RECURSIVE DuplicateScan_remembering_first(_, _, _)
\* the near-duplicate loop with seen keeping the dt of the first row of a key
DuplicateScan_remembering_first(sorted, i, seen) ==
    IF i > Len(sorted) THEN <<>>
    ELSE
        LET row == sorted[i]
            key == <<row.merchant_normalised, row.amount>>
            hit == /\ HasKey(seen, key)
                   /\ Abs(Seconds(row.dt) - Seconds(DictGet(seen, key, row.dt))) <= 300
            seen2 == IF HasKey(seen, key) THEN seen
                     ELSE Append(seen, [k |-> key, v |-> row.dt])
        IN  (IF hit
             THEN <<[category |-> row.category,
                     period |-> row.ts,
                     amount |-> Abs(row.amount),
                     reason |-> "potential_duplicate",
                     merchant |-> row.merchant]>>
             ELSE <<>>) \o DuplicateScan_remembering_first(sorted, i + 1, seen2)

RECURSIVE DuplicateScan(_, _, _)
\* the near-duplicate loop over the rows sorted by dt; seen is the dict
\* (merchant_normalised, round(amount, 2)) -> dt of the last row with that key
DuplicateScan(sorted, i, seen) ==
    IF i > Len(sorted) THEN <<>>
    ELSE
        LET row == sorted[i]
            key == <<row.merchant_normalised, row.amount>>
            hit == /\ HasKey(seen, key)
                   /\ Abs(Seconds(row.dt) - Seconds(DictGet(seen, key, row.dt))) <= 300
            seen2 == Append(Filter(seen, LAMBDA e : e.k # key), [k |-> key, v |-> row.dt])
        IN  (IF hit
             THEN <<[category |-> row.category,
                     period |-> row.ts,
                     amount |-> Abs(row.amount),
                     reason |-> "potential_duplicate",
                     merchant |-> row.merchant]>>
             ELSE <<>>) \o DuplicateScan(sorted, i + 1, seen2)

\* the rows the single-day scan of detect_anomalies flags, in order; Value(row)
\* is the float abs(row["amount"]).  The percentile is the float that
\* percentile_value returns, which can lie above the largest value.
single_day_spike_rows(spend_rows, Value(_)) ==
    Let(Filter(spend_rows, LAMBDA r : r.category \notin RENT_CATEGORIES),
        LAMBDA non_rent :
    Let(IF non_rent # <<>>
        THEN percentile_value_float(Map(non_rent, Value), FQuot(99, 100))
        ELSE FZero, LAMBDA percentile :
        IF percentile.m = <<>> THEN <<>>
        ELSE Filter(non_rent, LAMBDA r :
                 FLe(percentile, Value(r)) /\ FLt(FZero, Value(r)))))

detect_anomalies(rs) ==
    Let(Filter(rs, LAMBDA r : r.is_spend), LAMBDA spend_rows :
    IF spend_rows = <<>> THEN <<>>
    ELSE
    LET categories == InsertionOrder(Map(spend_rows, LAMBDA r : r.category))
        week_map(c) ==
            Let(Filter(spend_rows, LAMBDA r : r.category = c), LAMBDA catRows :
                Map(SortBy(InsertionOrder(Map(catRows, LAMBDA r : r.week_key)),
                           LAMBDA a, b : week_key_to_date(a) < week_key_to_date(b)),
                    LAMBDA w : [k |-> w,
                        v |-> SumAbs(Filter(catRows, LAMBDA r : r.week_key = w))]))
        rolling == FlattenSeqs(Map(categories, LAMBDA c : RollingSpikes(c, week_map(c))), 1)
        single ==
            Map(single_day_spike_rows(spend_rows, LAMBDA r : FFromInt(Abs(r.amount))),
                LAMBDA r : [category |-> r.category,
                            period |-> r.ts,
                            amount |-> Abs(r.amount),
                            reason |-> "single_day_spike",
                            merchant |-> r.merchant])
        duplicates ==
            DuplicateScan(SortBy(spend_rows, LAMBDA a, b : Seconds(a.dt) < Seconds(b.dt)),
                          1, <<>>)
    IN  rolling \o single \o duplicates)

-----------------------------------------------------------------------------
(* Variance & opportunity sizing                                           *)

\* month_days taking every month for 30 days
month_days_of_thirty(month_key) == 30

month_days(month_key) == DaysInMonth(month_key[1], month_key[2])

NoMonth == <<0, 0>>

EmptyVariances ==
    [per_category |-> <<>>,
     current_month |-> NoMonth,
     total_projection |-> RZero,
     total_baseline |-> RZero]

\* compute_variances taking the median over the months without spend too
compute_variances_counting_empty_months(rs, baselines) ==
    Let(Filter(rs, LAMBDA r : r.is_spend), LAMBDA spend_rows :
    IF spend_rows = <<>> THEN EmptyVariances
    ELSE
    Let(ordered_months({r.month_key : r \in Range(spend_rows)}), LAMBDA months :
    IF months = <<>> THEN EmptyVariances
    ELSE
    Let(months[Len(months)], LAMBDA current_month :
    Let(TakeLast(SubSeq(months, 1, Len(months) - 1), 3), LAMBDA previous_months :
    Let({DateOf(r.date).day :
            r \in {q \in Range(spend_rows) : q.month_key = current_month}},
        LAMBDA currentDays :
    LET categories == InsertionOrder(Map(spend_rows, LAMBDA r : r.category))
        month_map(c, m) ==
            SumAbs(Filter(spend_rows, LAMBDA r : r.category = c /\ r.month_key = m))
        days_in_current == month_days(current_month)
        day_of_month ==
            IF currentDays = {} THEN 0
            ELSE CHOOSE d \in currentDays : \A e \in currentDays : e <= d
        entry(c) ==
            Let(month_map(c, current_month), LAMBDA spent_so_far :
            Let(Map(previous_months, LAMBDA m : month_map(c, m)), LAMBDA history :
            Let(IF HasKey(baselines, c) THEN DictGet(baselines, c, RZero)
                ELSE IF history # <<>> THEN median(history)
                ELSE IF previous_months # <<>>
                THEN RInt(month_map(c, previous_months[Len(previous_months)]))
                ELSE RZero, LAMBDA baseline :
            Let(IF day_of_month # 0 /\ day_of_month < days_in_current
                THEN RMul(Rat(spent_so_far, Max(day_of_month, 1)), RInt(days_in_current))
                ELSE RInt(spent_so_far), LAMBDA projection :
            Let(RSub(projection, baseline), LAMBDA variance :
            LET opportunity ==
                    IF RLt(RZero, baseline) /\ RLt(RZero, variance)
                    THEN RMin(variance, RMul(baseline, CONFIG.opportunity_cap_ratio))
                    ELSE RZero
                prev_value ==
                    IF previous_months # <<>>
                    THEN month_map(c, previous_months[Len(previous_months)]) ELSE 0
                mom_pct ==
                    IF previous_months # <<>>
                    THEN pct_change(RInt(spent_so_far), RInt(prev_value))
                    ELSE NoneFloat
            IN  [k |-> c,
                 v |-> [baseline |-> baseline,
                        projection |-> projection,
                        variance |-> variance,
                        opportunity |-> opportunity,
                        spent_so_far |-> spent_so_far,
                        day_of_month |-> day_of_month,
                        mom_pct |-> mom_pct]])))))
    IN  Let(Map(categories, entry), LAMBDA per_category :
            [per_category |-> per_category,
             current_month |-> current_month,
             total_projection |-> SumRats(Map(per_category, LAMBDA e : e.v.projection), 1),
             total_baseline |-> SumRats(Map(per_category, LAMBDA e : e.v.baseline), 1)]))))))

\* baselines is a dict category -> rational; <<>> stands for None
compute_variances(rs, baselines) ==
    Let(Filter(rs, LAMBDA r : r.is_spend), LAMBDA spend_rows :
    IF spend_rows = <<>> THEN EmptyVariances
    ELSE
    Let(ordered_months({r.month_key : r \in Range(spend_rows)}), LAMBDA months :
    IF months = <<>> THEN EmptyVariances
    ELSE
    Let(months[Len(months)], LAMBDA current_month :
    Let(TakeLast(SubSeq(months, 1, Len(months) - 1), 3), LAMBDA previous_months :
    Let({DateOf(r.date).day :
            r \in {q \in Range(spend_rows) : q.month_key = current_month}},
        LAMBDA currentDays :
    LET categories == InsertionOrder(Map(spend_rows, LAMBDA r : r.category))
        month_map(c, m) ==
            SumAbs(Filter(spend_rows, LAMBDA r : r.category = c /\ r.month_key = m))
        days_in_current == month_days(current_month)
        day_of_month ==
            IF currentDays = {} THEN 0
            ELSE CHOOSE d \in currentDays : \A e \in currentDays : e <= d
        entry(c) ==
            Let(month_map(c, current_month), LAMBDA spent_so_far :
            Let(Map(Filter(previous_months, LAMBDA m : month_map(c, m) > 0),
                    LAMBDA m : month_map(c, m)), LAMBDA history :
            Let(IF HasKey(baselines, c) THEN DictGet(baselines, c, RZero)
                ELSE IF history # <<>> THEN median(history)
                ELSE IF previous_months # <<>>
                THEN RInt(month_map(c, previous_months[Len(previous_months)]))
                ELSE RZero, LAMBDA baseline :
            Let(IF day_of_month # 0 /\ day_of_month < days_in_current
                THEN RMul(Rat(spent_so_far, Max(day_of_month, 1)), RInt(days_in_current))
                ELSE RInt(spent_so_far), LAMBDA projection :
            Let(RSub(projection, baseline), LAMBDA variance :
            LET opportunity ==
                    IF RLt(RZero, baseline) /\ RLt(RZero, variance)
                    THEN RMin(variance, RMul(baseline, CONFIG.opportunity_cap_ratio))
                    ELSE RZero
                prev_value ==
                    IF previous_months # <<>>
                    THEN month_map(c, previous_months[Len(previous_months)]) ELSE 0
                mom_pct ==
                    IF previous_months # <<>>
                    THEN pct_change(RInt(spent_so_far), RInt(prev_value))
                    ELSE NoneFloat
            IN  [k |-> c,
                 v |-> [baseline |-> baseline,
                        projection |-> projection,
                        variance |-> variance,
                        opportunity |-> opportunity,
                        spent_so_far |-> spent_so_far,
                        day_of_month |-> day_of_month,
                        mom_pct |-> mom_pct]])))))
    IN  Let(Map(categories, entry), LAMBDA per_category :
            [per_category |-> per_category,
             current_month |-> current_month,
             total_projection |-> SumRats(Map(per_category, LAMBDA e : e.v.projection), 1),
             total_baseline |-> SumRats(Map(per_category, LAMBDA e : e.v.baseline), 1)]))))))

-----------------------------------------------------------------------------
(* Suggestions & challenges                                                *)

\* subscription_suggestions passing over the ghost charges that are not typed subscription
subscription_suggestions_for_typed_only(recurring_list, pats) ==
    Map(Filter(recurring_list, LAMBDA entry :
            /\ entry.type = "subscription"
            /\ entry.interval_days = 30),
        LAMBDA entry :
            [evidence |-> [interval_days |-> entry.interval_days,
                           median_amount |-> entry.median_amount,
                           pay_day |-> entry.pay_day_of_month,
                           ghost |-> entry.ghost_subscription],
             \* the merchant the title and the insight texts name
             merchant |-> entry.merchant,
             expected_saving |-> RAbs(entry.median_amount),
             confidence |-> Rat(75, 100),
             category |-> entry.category,
             type |-> "subscription"])

subscription_suggestions(recurring_list, pats) ==
    Map(Filter(recurring_list, LAMBDA entry :
            /\ ~(entry.type # "subscription" /\ ~entry.ghost_subscription)
            /\ entry.interval_days = 30),
        LAMBDA entry :
            [evidence |-> [interval_days |-> entry.interval_days,
                           median_amount |-> entry.median_amount,
                           pay_day |-> entry.pay_day_of_month,
                           ghost |-> entry.ghost_subscription],
             \* the merchant the title and the insight texts name
             merchant |-> entry.merchant,
             expected_saving |-> RAbs(entry.median_amount),
             confidence |-> Rat(75, 100),
             category |-> entry.category,
             type |-> "subscription"])

merchant_swap_suggestions(pats) ==
    Map(Filter(pats.merchant_hhi_details, LAMBDA e :
            /\ e.k \in SWAP_ELIGIBLE_CATEGORIES
            /\ FLt(CONFIG.hhi_high_threshold, e.v.hhi)),
        LAMBDA e :
            [evidence |-> [top_merchant |-> e.v.top_merchant,
                           top_share |-> e.v.top_share,
                           hhi |-> e.v.hhi],
             expected_saving |-> RMul(RMul(RInt(e.v.total), Rat(1, 10)), e.v.top_share),
             confidence |-> Rat(6, 10),
             category |-> e.k,
             type |-> "swap"])

drip_spend_suggestions(pats) ==
    LET leaks == pats.small_leaks
        latest == leaks[Len(leaks)]
        limit == CONFIG.small_tx_week_limit
    IN  IF leaks = <<>> THEN <<>>
        ELSE <<[evidence |-> [week |-> latest.week,
                              count |-> latest.count,
                              avg_small_tx |-> latest.avg_amount],
                expected_saving |->
                    RMul(RMul(RInt(Max(0, latest.count - limit)), latest.avg_amount),
                         RInt(4)),
                confidence |-> Rat(55, 100),
                category |-> "misc",
                type |-> "behavioural_nudge"]>>

late_night_suggestions(pats) ==
    Map(Filter(pats.late_night, LAMBDA e :
            /\ e.k \in LATE_NIGHT_CATEGORIES
            /\ ~RLt(e.v.share, Rat(35, 100))),
        LAMBDA e :
            [evidence |-> [time_peak |-> "evening+late",
                           last_30d_spend |-> DictGet(pats.category_30d_spend, e.k, 0),
                           projection |->
                               RMul(RInt(DictGet(pats.category_30d_spend, e.k, 0)),
                                    Rat(133, 100))],
             expected_saving |-> RMul(RInt(e.v.amount), Rat(3, 10)),
             confidence |-> Rat(6, 10),
             category |-> e.k,
             type |-> "behavioural_nudge"])

\* ridehail_suggestions with the threshold of the ride-hail challenge: four trips are enough
ridehail_suggestions_from_four_trips(pats) ==
    LET usage == pats.ridehail_usage
    IN  IF DOMAIN usage = {} \/ Get(usage, "trip_count", 0) < 4 THEN <<>>
        ELSE <<[evidence |-> [month |-> usage.month,
                              trip_count |-> usage.trip_count,
                              avg_ticket |-> usage.avg_ticket],
                expected_saving |-> RMul(RInt(usage.spend), Rat(5, 10)),
                confidence |-> Rat(5, 10),
                category |-> "transport.ridehail",
                type |-> "behavioural_nudge"]>>

ridehail_suggestions(pats) ==
    LET usage == pats.ridehail_usage
    IN  IF DOMAIN usage = {} \/ Get(usage, "trip_count", 0) <= 4 THEN <<>>
        ELSE <<[evidence |-> [month |-> usage.month,
                              trip_count |-> usage.trip_count,
                              avg_ticket |-> usage.avg_ticket],
                expected_saving |-> RMul(RInt(usage.spend), Rat(5, 10)),
                confidence |-> Rat(5, 10),
                category |-> "transport.ridehail",
                type |-> "behavioural_nudge"]>>

cashflow_buffer_suggestions(pats, recurring_list) ==
    LET squeezes == pats.cashflow.squeezes
        rent_entries == Filter(recurring_list, LAMBDA entry : entry.type = "rent")
        rent == rent_entries[1]
    IN  IF squeezes = <<>> \/ rent_entries = <<>> THEN <<>>
        ELSE <<[evidence |-> [rent_due_day |-> rent.pay_day_of_month,
                              squeeze_week |-> squeezes[Len(squeezes)].week,
                              net |-> squeezes[Len(squeezes)].net],
                set_aside |-> RDiv(RAbs(rent.median_amount), RInt(4)),
                expected_saving |-> RZero,
                confidence |-> Rat(65, 100),
                category |-> "housing.rent",
                type |-> "cashflow"]>>

\* build_suggestions returning every suggestion the generators give
build_suggestions_uncapped(trnds, pats, recurring_list, anoms, vars_) ==
    subscription_suggestions(recurring_list, pats)
    \o merchant_swap_suggestions(pats)
    \o drip_spend_suggestions(pats)
    \o late_night_suggestions(pats)
    \o ridehail_suggestions(pats)
    \o cashflow_buffer_suggestions(pats, recurring_list)

build_suggestions(trnds, pats, recurring_list, anoms, vars_) ==
    LET s1 == <<>> \o subscription_suggestions(recurring_list, pats)
        s2 == s1 \o merchant_swap_suggestions(pats)
        s3 == s2 \o drip_spend_suggestions(pats)
        s4 == s3 \o late_night_suggestions(pats)
        s5 == s4 \o ridehail_suggestions(pats)
        s6 == s5 \o cashflow_buffer_suggestions(pats, recurring_list)
    IN  Take(s6, 10)

round_to_nearest_5(value) == 5 * RoundHalfEven(RDiv(value, RInt(5)))

\* the candidate challenges in the order build_challenges appends them
ChallengeCandidates(suggs, pats, vars_) ==
    LET per_category == vars_.per_category
        hasGrocery == HasKey(per_category, "groceries")
        baseline == DictGet(per_category, "groceries", [baseline |-> RZero]).baseline
        grocery ==
            IF hasGrocery /\ RLt(RZero, baseline)
            THEN <<[code |-> "GROCERY_TRIM_14D",
                    window_days |-> 14,
                    target_kind |-> "amount",
                    target |-> round_to_nearest_5(
                                  RMul(RMul(baseline, Rat(9, 10)), Rat(14, 30))),
                    category_scope |-> <<"groceries">>,
                    reward_points |-> 120,
                    expected_saving |-> RMul(RMul(baseline, Rat(1, 10)), Rat(14, 30))]>>
            ELSE <<>>
        late_night ==
            IF HasKey(pats.late_night, "eating_out")
            THEN <<[code |-> "NO_LATE_NIGHT_7D",
                    window_days |-> 7,
                    target_kind |-> "amount",
                    target |-> 0,
                    category_scope |-> <<"eating_out">>,
                    reward_points |-> 100,
                    expected_saving |->
                        Rat(DictGet(pats.late_night, "eating_out", [amount |-> 0]).amount, 4)]>>
            ELSE <<>>
        usage == pats.ridehail_usage
        ridehail ==
            IF DOMAIN usage # {} /\ Get(usage, "trip_count", 0) >= 4
            THEN <<[code |-> "RIDEHAIL_SWAP_14D",
                    window_days |-> 14,
                    target_kind |-> "count",
                    target |-> Max(0, usage.trip_count - 4),
                    category_scope |-> <<"transport.ridehail">>,
                    reward_points |-> 90,
                    expected_saving |-> RMul(RInt(usage.spend), Rat(4, 10))]>>
            ELSE <<>>
        subs == Filter(suggs, LAMBDA sg : sg.type = "subscription")
        subscription ==
            IF subs # <<>>
            THEN <<[code |-> "SUBSCRIPTION_AUDIT_30D",
                    window_days |-> 30,
                    target_kind |-> "count",
                    target |-> 1,
                    category_scope |-> <<subs[1].category>>,
                    reward_points |-> 80,
                    expected_saving |-> subs[1].expected_saving]>>
            ELSE <<>>
    IN  grocery \o late_night \o ridehail \o subscription

\* build_challenges keeping the first three candidates in the order they were
\* appended
build_challenges_unsorted(suggs, pats, vars_) ==
    Take(ChallengeCandidates(suggs, pats, vars_), 3)

build_challenges(suggs, pats, vars_) ==
    Let(ChallengeCandidates(suggs, pats, vars_), LAMBDA candidates :
        Take(SortBy(candidates,
                    LAMBDA a, b : RLt(b.expected_saving, a.expected_saving)), 3))

-----------------------------------------------------------------------------
(* Summary & orchestration                                                 *)

\* compute_top_rising_categories sorting without reverse=True
compute_top_rising_categories_slowest_first(trnds) ==
    LET category_spend == trnds.category_spend
        months == Keys(trnds.monthly_spend)
        current_month == months[Len(months)]
        previous_month == months[Len(months) - 1]
        change(c) == pct_change(DictGet(c.v, current_month, RZero),
                                DictGet(c.v, previous_month, RZero))
        rising ==
            Map(Filter(category_spend, LAMBDA c :
                    /\ ~RLt(DictGet(c.v, current_month, RZero), RInt(15))
                    /\ ~IsNone(change(c))
                    /\ change(c).n # 0
                    /\ RLe(CONFIG.rising_mom_threshold, change(c))),
                LAMBDA c : [category |-> c.k, mom_pct |-> change(c)])
    IN  IF Len(months) < 2 THEN <<>>
        ELSE Take(SortBy(rising, LAMBDA a, b : RLt(a.mom_pct, b.mom_pct)), 3)

compute_top_rising_categories(trnds) ==
    LET category_spend == trnds.category_spend
        months == Keys(trnds.monthly_spend)
        current_month == months[Len(months)]
        previous_month == months[Len(months) - 1]
        change(c) == pct_change(DictGet(c.v, current_month, RZero),
                                DictGet(c.v, previous_month, RZero))
        rising ==
            Map(Filter(category_spend, LAMBDA c :
                    /\ ~RLt(DictGet(c.v, current_month, RZero), RInt(15))
                    /\ ~IsNone(change(c))
                    /\ change(c).n # 0
                    /\ RLe(CONFIG.rising_mom_threshold, change(c))),
                LAMBDA c : [category |-> c.k, mom_pct |-> change(c)])
    IN  IF Len(months) < 2 THEN <<>>
        ELSE Take(SortBy(rising, LAMBDA a, b : RLt(b.mom_pct, a.mom_pct)), 3)

top_saving_opportunities(vars_) ==
    LET candidates ==
            Map(Filter(vars_.per_category, LAMBDA e : e.v.opportunity.n # 0),
                LAMBDA e : [category |-> e.k, amount |-> e.v.opportunity])
    IN  Take(SortBy(candidates, LAMBDA a, b : RLt(b.amount, a.amount)), 3)

\* summarise handing on the result of pattern_mining as it is
summarise_passing_patterns_through(rs, trnds, pats, recurring_list, anoms, suggs, chals, vars_) ==
    LET months == ordered_months({r.month_key : r \in Range(rs)})
        period == IF months # <<>> THEN <<months[1], months[Len(months)]>> ELSE <<>>
        cutoff == MinusDays(LatestDt(rs), 30)
        total_spend_30d ==
            IF rs # <<>>
            THEN SumAbs(Filter(rs, LAMBDA r : r.is_spend /\ DtGe(r.dt, cutoff)))
            ELSE 0
    IN  [summary |->
            [period |-> period,
             total_spend_30d |-> total_spend_30d,
             projected_spend_curr_month |-> vars_.total_projection,
             top_rising_categories |-> compute_top_rising_categories(trnds),
             top_saving_opportunities |-> top_saving_opportunities(vars_)],
         patterns |-> pats,
         recurring |-> recurring_list,
         anomalies |-> anoms,
         suggestions |-> suggs,
         challenges |-> chals]

\* period is <<first month, last month>>, and <<>> for the empty text ""
summarise(rs, trnds, pats, recurring_list, anoms, suggs, chals, vars_) ==
    LET months == ordered_months({r.month_key : r \in Range(rs)})
        period == IF months # <<>> THEN <<months[1], months[Len(months)]>> ELSE <<>>
        cutoff == MinusDays(LatestDt(rs), 30)
        total_spend_30d ==
            IF rs # <<>>
            THEN SumAbs(Filter(rs, LAMBDA r : r.is_spend /\ DtGe(r.dt, cutoff)))
            ELSE 0
    IN  [summary |->
            [period |-> period,
             total_spend_30d |-> total_spend_30d,
             projected_spend_curr_month |-> vars_.total_projection,
             top_rising_categories |-> compute_top_rising_categories(trnds),
             top_saving_opportunities |-> top_saving_opportunities(vars_)],
         patterns |->
            [dow_peaks |-> pats.dow_peaks,
             time_buckets |-> pats.time_buckets,
             merchant_hhi |-> pats.merchant_hhi,
             small_leaks |-> pats.small_leaks,
             cashflow_squeezes |-> pats.cashflow.squeezes],
         recurring |-> recurring_list,
         anomalies |-> anoms,
         suggestions |-> suggs,
         challenges |-> chals]

\* the keys of the report that build_suggestions_prompt of gemini_client.py
\* reads, and the key of the summary it reads
PromptSections == {"summary", "patterns", "recurring", "anomalies", "suggestions"}
PromptSummaryKeys == {"top_saving_opportunities"}

-----------------------------------------------------------------------------
(* gemini_client.py: the cached client.  A client is a record of the       *)
(* fields the constructor sets; its identity is its index in               *)
(* gemini_client.clients, the clients constructed so far.                  *)

\* None where a client is expected
NoClient == 0

\* the module after import: api_key is GEMINI_API_KEY ("" when the environment
\* has none) and installed tells whether google.generativeai was imported
GeminiAtImport(api_key, installed) ==
    [GEMINI_API_KEY |-> api_key,
     GEMINI_MODEL |-> "models/gemini-2.0-flash-lite-preview",
     genai |-> installed,
     shared_client |-> NoClient,
     clients |-> <<>>,
     calls |-> <<>>]

\* GeminiClient(**overrides) in the module g: the exception __post_init__
\* raises ("" for none) and the client constructed
GeminiClient(g, overrides) ==
    IF ~g.genai THEN [raised |-> "GeminiDependencyError"]
    ELSE Let(IF Get(overrides, "api_key", "") # "" THEN overrides.api_key
             ELSE g.GEMINI_API_KEY, LAMBDA api_key :
         IF api_key = "" THEN [raised |-> "GeminiConfigurationError"]
         ELSE [raised |-> "",
               client |-> [api_key |-> api_key,
                           model_name |-> Get(overrides, "model_name", g.GEMINI_MODEL)]])

\* the module after a call that ended: the call is recorded with the exception
\* raised, the client returned, how many clients it constructed and the value
\* it leaves in _shared_client
Called(g, overrides, exception, client, constructed) ==
    [g EXCEPT !.calls = Append(@, [overrides |-> overrides,
                                   raised |-> exception,
                                   client |-> client,
                                   constructed |-> constructed,
                                   shared_client |-> g.shared_client])]

\* get_gemini_client caching the client made with overrides when none is cached
get_gemini_client_caching_overrides(g, overrides) ==
    IF g.shared_client # NoClient /\ DOMAIN overrides = {}
    THEN Called(g, overrides, "", g.shared_client, 0)
    ELSE Let(GeminiClient(g, overrides), LAMBDA made :
         IF made.raised # "" THEN Called(g, overrides, made.raised, NoClient, 0)
         ELSE Let(Len(g.clients) + 1, LAMBDA new :
              Called([g EXCEPT !.clients = Append(@, made.client),
                               !.shared_client = IF @ = NoClient THEN new ELSE @],
                     overrides, "", new, 1)))

\* get_gemini_client(**overrides) in the module g: the module after the call
get_gemini_client(g, overrides) ==
    IF DOMAIN overrides # {}
    THEN Let(GeminiClient(g, overrides), LAMBDA made :
         IF made.raised # "" THEN Called(g, overrides, made.raised, NoClient, 0)
         ELSE Called([g EXCEPT !.clients = Append(@, made.client)],
                     overrides, "", Len(g.clients) + 1, 1))
    ELSE IF g.shared_client = NoClient
    THEN Let(GeminiClient(g, overrides), LAMBDA made :
         IF made.raised # "" THEN Called(g, overrides, made.raised, NoClient, 0)
         ELSE Let(Len(g.clients) + 1, LAMBDA new :
              Called([g EXCEPT !.clients = Append(@, made.client),
                               !.shared_client = new],
                     overrides, "", new, 1)))
    ELSE Called(g, overrides, "", g.shared_client, 0)

-----------------------------------------------------------------------------
(* analyse_spending as a state machine: one action per stage, in the       *)
(* order of the calls.                                                     *)

\* the value of a result that has not been computed
NotRun == [not_run |-> TRUE]

\* what no function of the pipeline assigns: the caller's batch, the
\* module-level names, the interpreter and the calls that have ended
Kept == UNCHANGED <<transactions, module_state, interpreter, given_baselines, gemini_client, returned>>

\* preprocess widening the HHI window of CONFIG for the calls that follow
Preprocess_widening_hhi_window ==
    /\ pc = "start"
    /\ \E res \in {preprocess(transactions)} :
           IF res.raised # ""
           THEN /\ pc' = "raised"
                /\ raised' = res.raised
                /\ UNCHANGED <<rows, finished>>
           ELSE /\ pc' = "preprocessed"
                /\ rows' = res.cleaned
                /\ finished' = finished \cup {"preprocess"}
                /\ UNCHANGED raised
    /\ module_state' = [module_state EXCEPT !.CONFIG.hhi_window_weeks = @ + 8]
    /\ UNCHANGED <<trends, patterns, recurring, anomalies, variances,
                   suggestions, challenges, report>>
    /\ UNCHANGED <<transactions, interpreter, given_baselines, gemini_client, returned>>

\* preprocess enriching the caller's records themselves (enriched = row)
Preprocess_enriching_in_place ==
    /\ pc = "start"
    /\ \E res \in {preprocess(transactions)} :
           IF res.raised # ""
           THEN /\ pc' = "raised"
                /\ raised' = res.raised
                /\ UNCHANGED <<rows, finished, transactions>>
           ELSE /\ pc' = "preprocessed"
                /\ rows' = res.cleaned
                /\ transactions' = res.cleaned
                /\ finished' = finished \cup {"preprocess"}
                /\ UNCHANGED raised
    /\ UNCHANGED <<trends, patterns, recurring, anomalies, variances,
                   suggestions, challenges, report>>
    /\ UNCHANGED <<module_state, interpreter, given_baselines, gemini_client, returned>>

Preprocess ==
    /\ pc = "start"
    /\ \E res \in {preprocess(transactions)} :
           IF res.raised # ""
           THEN /\ pc' = "raised"
                /\ raised' = res.raised
                /\ UNCHANGED <<rows, finished>>
           ELSE /\ pc' = "preprocessed"
                /\ rows' = res.cleaned
                /\ finished' = finished \cup {"preprocess"}
                /\ UNCHANGED raised
    /\ UNCHANGED <<trends, patterns, recurring, anomalies, variances,
                   suggestions, challenges, report>>
    /\ Kept

\* monthly_trends(rows) runs and returns; it reads rows and writes only its result
MonthlyTrendsReturns ==
    /\ trends' = monthly_trends(rows)
    /\ finished' = finished \cup {"monthly_trends"}
    /\ UNCHANGED <<raised, rows, patterns, recurring, anomalies,
                   variances, suggestions, challenges, report>>
    /\ Kept

\* pattern_mining(rows) runs and returns
PatternMiningReturns ==
    /\ patterns' = pattern_mining(rows, interpreter.float_sum)
    /\ finished' = finished \cup {"pattern_mining"}
    /\ UNCHANGED <<raised, rows, trends, recurring, anomalies,
                   variances, suggestions, challenges, report>>
    /\ Kept

\* detect_recurring(rows) with rows.sort(key=dt) in place of the sort of each
\* merchant's own list
DetectRecurringReturns_sorting_rows ==
    /\ recurring' = detect_recurring(rows)
    /\ rows' = SortBy(rows, LAMBDA a, b : Seconds(a.dt) > Seconds(b.dt))
    /\ finished' = finished \cup {"detect_recurring"}
    /\ UNCHANGED <<raised, trends, patterns, anomalies,
                   variances, suggestions, challenges, report>>
    /\ Kept

\* detect_recurring(rows) runs and returns; the lists it sorts are its own
DetectRecurringReturns ==
    /\ recurring' = detect_recurring(rows)
    /\ finished' = finished \cup {"detect_recurring"}
    /\ UNCHANGED <<raised, rows, trends, patterns, anomalies,
                   variances, suggestions, challenges, report>>
    /\ Kept

\* detect_anomalies(rows) runs and returns
DetectAnomaliesReturns ==
    /\ anomalies' = detect_anomalies(rows)
    /\ finished' = finished \cup {"detect_anomalies"}
    /\ UNCHANGED <<raised, rows, trends, patterns, recurring,
                   variances, suggestions, challenges, report>>
    /\ Kept

\* compute_variances(rows, baselines) runs and returns; analyse_spending
\* calls it without baselines
ComputeVariancesReturns ==
    /\ variances' = compute_variances(rows, given_baselines)
    /\ finished' = finished \cup {"compute_variances"}
    /\ UNCHANGED <<raised, rows, trends, patterns, recurring,
                   anomalies, suggestions, challenges, report>>
    /\ Kept

MonthlyTrends ==
    /\ pc = "preprocessed"
    /\ MonthlyTrendsReturns
    /\ pc' = "trends"

PatternMining ==
    /\ pc = "trends"
    /\ PatternMiningReturns
    /\ pc' = "patterns"

DetectRecurring ==
    /\ pc = "patterns"
    /\ DetectRecurringReturns
    /\ pc' = "recurring"

DetectAnomalies ==
    /\ pc = "recurring"
    /\ DetectAnomaliesReturns
    /\ pc' = "anomalies"

ComputeVariances ==
    /\ pc = "anomalies"
    /\ ComputeVariancesReturns
    /\ pc' = "variances"

BuildSuggestions ==
    /\ pc = "variances"
    /\ suggestions' = build_suggestions(trends, patterns, recurring, anomalies, variances)
    /\ pc' = "suggestions"
    /\ finished' = finished \cup {"build_suggestions"}
    /\ UNCHANGED <<raised, rows, trends, patterns, recurring,
                   anomalies, variances, challenges, report>>
    /\ Kept

BuildChallenges ==
    /\ pc = "suggestions"
    /\ challenges' = build_challenges(suggestions, patterns, variances)
    /\ pc' = "challenges"
    /\ finished' = finished \cup {"build_challenges"}
    /\ UNCHANGED <<raised, rows, trends, patterns, recurring,
                   anomalies, variances, suggestions, report>>
    /\ Kept

Summarise ==
    /\ pc = "challenges"
    /\ report' = summarise(rows, trends, patterns, recurring, anomalies, suggestions,
                           challenges, variances)
    /\ pc' = "done"
    /\ finished' = finished \cup {"summarise"}
    /\ UNCHANGED <<raised, rows, trends, patterns, recurring,
                   anomalies, variances, suggestions, challenges>>
    /\ Kept

Next ==
    \/ Preprocess
    \/ MonthlyTrends
    \/ PatternMining
    \/ DetectRecurring
    \/ DetectAnomalies
    \/ ComputeVariances
    \/ BuildSuggestions
    \/ BuildChallenges
    \/ Summarise

\* the five functions that are handed nothing but the rows of preprocess
RowStages ==
    {"monthly_trends", "pattern_mining", "detect_recurring", "detect_anomalies",
     "compute_variances"}

\* the function runs on the rows of preprocess before, between or after the
\* other four; build_suggestions is called once all five have returned
AnyOrder(stage) ==
    /\ pc = "preprocessed"
    /\ stage \notin finished
    /\ pc' = IF RowStages \subseteq finished \cup {stage} THEN "variances"
             ELSE "preprocessed"

MonthlyTrendsAnyOrder == AnyOrder("monthly_trends") /\ MonthlyTrendsReturns

PatternMiningAnyOrder == AnyOrder("pattern_mining") /\ PatternMiningReturns

DetectRecurringAnyOrder == AnyOrder("detect_recurring") /\ DetectRecurringReturns

DetectAnomaliesAnyOrder == AnyOrder("detect_anomalies") /\ DetectAnomaliesReturns

ComputeVariancesAnyOrder == AnyOrder("compute_variances") /\ ComputeVariancesReturns

NextAnyOrder ==
    \/ Preprocess
    \/ MonthlyTrendsAnyOrder
    \/ PatternMiningAnyOrder
    \/ DetectRecurringAnyOrder
    \/ DetectAnomaliesAnyOrder
    \/ ComputeVariancesAnyOrder
    \/ BuildSuggestions
    \/ BuildChallenges
    \/ Summarise

\* the state when the pipeline is entered with the batch txs for the first
\* time after the module has been imported, compute_variances being given
\* supplied as its baselines
EnteredIn(txs, supplied, gemini) ==
    /\ transactions = txs
    /\ pc = "start"
    /\ raised = ""
    /\ rows = <<>>
    /\ trends = NotRun
    /\ patterns = NotRun
    /\ recurring = <<>>
    /\ anomalies = <<>>
    /\ variances = NotRun
    /\ suggestions = <<>>
    /\ challenges = <<>>
    /\ report = NotRun
    /\ finished = {}
    /\ module_state = ModuleAtImport
    /\ interpreter \in [float_sum : {"sequential", "compensated"}]
    /\ given_baselines = supplied
    /\ gemini_client = gemini
    /\ returned = <<>>

\* the same where gemini_client.py was imported with the library installed
\* and an API key in the environment
EnteredWith(txs, supplied) == EnteredIn(txs, supplied, GeminiAtImport("env-key", TRUE))

\* analyse_spending is entered: it calls compute_variances(rows), baselines None
Entered(txs) == EnteredWith(txs, <<>>)

-----------------------------------------------------------------------------
(* Input batches                                                           *)

\* a well-formed input record
Tx(amount, day, sod, merchant, category) ==
    [amount |-> amount, currency |-> "GBP", ts |-> [day |-> day, sod |-> sod],
     merchant |-> merchant, category |-> category, user_id |-> "demo"]

\* all sequences over S of length at most n
SeqsUpTo(S, n) == UNION {[1..k -> S] : k \in 0..n}

MaxLen == 3

\* records of three months around a year boundary, with the records preprocess
\* rejects and a record that leaves every optional key out
TxUniverse ==
    {Tx(-10, 307, 9 * 3600, "Tesco", "tesco"),                \* 2024-11-03
     Tx(-100, 370, 20 * 3600, "Tesco", "Groceries"),          \* 2025-01-05
     Tx(1000, 340, 9 * 3600, "Employer", "salary"),           \* 2024-12-06
     Tx(-40, 372, 23 * 3600, "deliveroo", "eating_out"),      \* 2025-01-07
     [amount |-> -30, ts |-> [day |-> 309, sod |-> 0]],       \* 2024-11-05
     [amount |-> -20, currency |-> "USD", ts |-> [day |-> 371, sod |-> 0],
      merchant |-> "Tesco", category |-> "groceries"],
     [amount |-> -20, currency |-> "GBP", merchant |-> "Tesco",
      category |-> "groceries"]}

Init == \E txs \in SeqsUpTo(TxUniverse, MaxLen) : Entered(txs)

Spec == Init /\ [][Next]_vars

\* count charges of one merchant, interval days apart, from day first on
Series(merchant, category, amount, first, interval, count, sod) ==
    [i \in 1..count |-> Tx(amount, first + (i - 1) * interval, sod, merchant, category)]

\* the most rows that accompany the charge series of SpecSeries
MaxExtra == 1

\* one merchant charging three times: at and above the rent threshold, at the
\* intervals match_interval knows and at one it does not, in a rent category
\* (spelled two ways) and in another one
MainSeries ==
    {Series("Landlord", category, -amount, 367, interval, 3, 8 * 3600) :
        category \in {"housing.rent", " Rent ", "streaming"},
        amount \in {200, 201},
        interval \in {7, 10, 14, 30}}

\* rows around the series: a fourth charge of the merchant, another merchant
\* of the category, a salary
ExtraRows ==
    {Tx(-150, 430, 9 * 3600, "landlord", "housing.rent"),
     Tx(-90, 425, 9 * 3600, "Netflix", "streaming"),
     Tx(-35, 420, 9 * 3600, "Agency", "rent"),
     Tx(2500, 431, 9 * 3600, "Employer", "salary")}

InitSeries ==
    \E main \in MainSeries, extra \in SeqsUpTo(ExtraRows, MaxExtra) :
        Entered(main \o extra)

SpecSeries == InitSeries /\ [][Next]_vars

\* the most rows of a batch of SpecWindow
MaxRows == 3

\* grocery spend at three merchants (one spelled two ways) around the start of
\* the 8-week window, spend of another category and a later salary
WindowUniverse ==
    {Tx(-30, 400, 12 * 3600, "Tesco", "groceries"),
     Tx(-10, 395, 12 * 3600, "Aldi", "aldi"),
     Tx(-20, 344, 12 * 3600, "Lidl", "lidl"),
     Tx(-45, 401, 12 * 3600, "tesco", "Groceries"),
     Tx(-60, 398, 12 * 3600, " Netflix", "streaming"),
     Tx(500, 402, 12 * 3600, "Employer", "salary")}

\* the most merchants that share a category's spend equally
MaxMerchants == 21

ShopNames ==
    <<"asda", "aldi", "booths", "budgens", "coop", "costco", "farmfoods",
      "heron", "iceland", "lidl", "londis", "makro", "morrisons", "nisa",
      "ocado", "poundland", "spar", "tesco", "waitrose", "wilko", "netto",
      "jacks", "fultons", "dunnes">>

\* n merchants with one grocery spend of the same amount each, after earlier
\* grocery spends at one more merchant, of which the first is older than 8 weeks
EqualShops(n, amount) ==
    <<Tx(-amount, 340, 12 * 3600, "kwiksave", "groceries"),
      Tx(-amount, 341, 12 * 3600, "kwiksave", "groceries")>>
    \o [i \in 1..n |-> Tx(-amount, 397, (8 + (i % 12)) * 3600, ShopNames[i], "groceries")]

InitWindow ==
    \/ \E txs \in SeqsUpTo(WindowUniverse, MaxRows) : Entered(txs)
    \/ \E n \in 1..MaxMerchants, amount \in {5, 12} : Entered(EqualShops(n, amount))

SpecWindow == InitWindow /\ [][Next]_vars

\* the most streaming subscriptions of a batch of SpecBlocks
MaxExtraSubs == 1

StreamingMerchants == <<"Netflix", "Spotify", "Disney", "Prime">>

\* monthly charges of 2025-01-02, 2025-02-01 and 2025-03-03
Monthly(merchant, category, amount, sod) ==
    Series(merchant, category, amount, 367, 30, 3, sod)

\* the household blocks, each with the ones before it: groceries, late
\* take-away, coffee and delivery, rent and the salary of the week after
CoreBlocks ==
    LET grocery == Monthly("Tesco", "tesco", -50, 10 * 3600)
        takeaway == Monthly("Deliveroo", "deliveroo", -25, 22 * 3600)
        coffee == Monthly("Pret", "pret", -12, 8 * 3600)
        delivery == Monthly("Dominos", "dining.delivery", -20, 23 * 3600)
        rent == Monthly("Landlord", "rent", -800, 9 * 3600)
        salary == <<Tx(3000, 434, 9 * 3600, "Employer", "salary")>>
    IN  {<<>>,
         grocery,
         grocery \o takeaway,
         grocery \o takeaway \o coffee \o delivery,
         grocery \o takeaway \o coffee \o delivery \o rent \o salary}

\* trips ride-hail trips of 4 pounds, one a day from Monday 2025-03-03
Trips(trips) ==
    [i \in 1..trips |-> Tx(-4, 426 + i, 18 * 3600, "Uber", "uber")]

\* n streaming subscriptions
Subscriptions(n) ==
    LET RECURSIVE Subs(_)
        Subs(k) == IF k = 0 THEN <<>>
                   ELSE Subs(k - 1) \o Monthly(StreamingMerchants[k], "streaming",
                                               -(9 + k), 7 * 3600)
    IN  Subs(n)

InitBlocks ==
    \E core \in CoreBlocks, trips \in {0, 4, 5, 7}, n \in 0..MaxExtraSubs :
        Entered(core \o Trips(trips) \o Subscriptions(n))

SpecBlocks == InitBlocks /\ [][Next]_vars

\* household batches without or with five ride-hail trips
InitAnyOrder == \E core \in CoreBlocks, trips \in {0, 5} : Entered(core \o Trips(trips))

\* analyse_spending with the five row stages run in any order
SpecAnyOrder == InitAnyOrder /\ [][NextAnyOrder]_vars

\* the most rows that make up one week's spend of SpecWeeks
MaxSplit == 2

\* the spend of one category in the week-th week counted from Monday
\* 2024-12-30 (ISO 2025-W01): parts rows on consecutive days that add up to total
WeekRows(category, merchant, week, total, parts) ==
    [j \in 1..parts |->
        Tx(-(IF j < parts THEN total \div parts
             ELSE total - (parts - 1) * (total \div parts)),
           364 + 7 * (week - 1) + (j - 1), 13 * 3600, merchant, category)]

\* rows whose weekly totals for the category are totals, week after week
Weekly(category, merchant, totals, parts) ==
    LET RECURSIVE From(_)
        From(week) == IF week > Len(totals) THEN <<>>
                      ELSE WeekRows(category, merchant, week, totals[week], parts)
                           \o From(week + 1)
    IN  From(1)

\* six consecutive weeks of grocery spend, flat or nearly flat for five weeks
\* and then flat or tripled, beside a coffee spend that stays flat
InitWeeks ==
    \E head \in [1..5 -> {100, 110}], last \in {100, 300}, parts \in 1..MaxSplit :
        Entered(Weekly("groceries", "Tesco", head \o <<last>>, parts)
                \o Weekly("pret", "Pret", <<20, 20, 20, 20, 20, 20>>, 1))

SpecWeeks == InitWeeks /\ [][Next]_vars

\* the most calendar weeks of a freely chosen batch of SpecGaps
MaxGapWeeks == 4

\* one grocery spend of totals[week] in each week counted from 2025-W01,
\* none in a week whose total is 0
GapWeekly(totals) ==
    LET RECURSIVE From(_)
        From(week) ==
            IF week > Len(totals) THEN <<>>
            ELSE (IF totals[week] = 0 THEN <<>>
                  ELSE WeekRows("groceries", "Tesco", week, totals[week], 1))
                 \o From(week + 1)
    IN  From(1)

\* weekly grocery totals, some weeks without spend: every series over
\* MaxGapWeeks weeks, two weeks of spend followed by a tripled week seven
\* weeks later, and eight weeks in a row of which the first is out of reach
InitGaps ==
    \E totals \in [1..MaxGapWeeks -> {0, 100, 110, 300}]
                    \cup {<<100, 110, 0, 0, 0, 0, 0, 0, 300>>,
                          <<1000, 100, 100, 100, 100, 100, 110, 150>>} :
        Entered(GapWeekly(totals))

SpecGaps == InitGaps /\ [][Next]_vars

\* the most months with grocery spend before the current one in SpecMonths
MaxPrev == 3

\* one grocery spend on the 15th of each of the months before April 2025, the
\* oldest first: amounts[i] pounds, none when that is 0
EarlierMonths(amounts) ==
    LET n == Len(amounts)
        mk(i) == add_months(<<2025, 4>>, i - n - 1)
        RECURSIVE From(_)
        From(i) ==
            IF i > n THEN <<>>
            ELSE (IF amounts[i] = 0 THEN <<>>
                  ELSE <<Tx(-amounts[i], Ordinal(mk(i)[1], mk(i)[2], 15), 10 * 3600,
                            "Tesco", "groceries")>>) \o From(i + 1)
    IN  From(1)

\* grocery spends of up to MaxPrev earlier months, then one in April 2025 (30
\* days) on the 10th or on the 30th, with or without a first coffee that month
InitMonths ==
    \E n \in 0..MaxPrev :
      \E amounts \in [1..n -> {0, 50, 80}],
         current \in {[amount |-> 55, dd |-> 10], [amount |-> 5, dd |-> 30]},
         coffee \in SeqsUpTo({Tx(-7, Ordinal(2025, 4, 3), 8 * 3600, "Pret", "pret")}, 1) :
        Entered(EarlierMonths(amounts)
                \o <<Tx(-current.amount, Ordinal(2025, 4, current.dd), 10 * 3600,
                        "Tesco", "groceries")>>
                \o coffee)

SpecMonths == InitMonths /\ [][Next]_vars

\* the most months before the current one in a batch of SpecVariances
MaxEarlier == 4

\* a coffee on the 3rd of April 2025 and of each of the n months before it
CoffeeMonths(n) ==
    [i \in 1..(n + 1) |->
        Tx(-7, Ordinal(add_months(<<2025, 4>>, i - n - 1)[1],
                       add_months(<<2025, 4>>, i - n - 1)[2], 3),
           8 * 3600, "Pret", "pret")]

\* the baselines a caller of compute_variances supplies: none, one for
\* groceries, a zero for coffee
SuppliedBaselines ==
    {<<>>,
     <<[k |-> "groceries", v |-> RInt(70)]>>,
     <<[k |-> "dining.coffee", v |-> RZero]>>}

\* grocery spends in some of up to MaxEarlier months before April 2025 and one
\* in April, with or without a coffee in every one of these months, so that a
\* month without groceries is or is not a month with spend
InitVariances ==
    \E n \in 0..MaxEarlier :
      \E amounts \in [1..n -> {0, 50, 80}], coffee \in BOOLEAN,
         supplied \in SuppliedBaselines :
        EnteredWith(EarlierMonths(amounts)
                    \o <<Tx(-55, Ordinal(2025, 4, 10), 10 * 3600, "Tesco", "groceries")>>
                    \o (IF coffee THEN CoffeeMonths(n) ELSE <<>>),
                    supplied)

\* compute_variances(rows, baselines) called on the rows of preprocess
ComputeVariancesCalled ==
    /\ pc = "preprocessed"
    /\ ComputeVariancesReturns
    /\ pc' = "variances_returned"

NextVariances == Preprocess \/ ComputeVariancesCalled

SpecVariances == InitVariances /\ [][NextVariances]_vars

\* the months a batch of SpecProjection ends in: 29, 28, 30 and 31 days
ProjectionMonths == {<<2024, 2>>, <<2025, 2>>, <<2025, 4>>, <<2025, 1>>}

\* a grocery spend on the latest day of the current month (the first, the
\* tenth, the day before the last or the last), with or without a coffee on
\* the first of that month and a grocery spend of 50 on the 15th of the month
\* before
InitProjection ==
    \E mk \in ProjectionMonths, amount \in {7, 55}, coffee \in BOOLEAN,
       before \in BOOLEAN :
      \E dd \in {1, 10, month_days(mk) - 1, month_days(mk)} :
        Entered((IF before
                 THEN <<Tx(-50, Ordinal(add_months(mk, -1)[1], add_months(mk, -1)[2], 15),
                           10 * 3600, "Tesco", "groceries")>>
                 ELSE <<>>)
                \o (IF coffee
                    THEN <<Tx(-3, Ordinal(mk[1], mk[2], 1), 8 * 3600, "Pret", "pret")>>
                    ELSE <<>>)
                \o <<Tx(-amount, Ordinal(mk[1], mk[2], dd), 10 * 3600, "Tesco",
                        "groceries")>>)

SpecProjection == InitProjection /\ [][Next]_vars

\* charge series of three charges each that end on day 427: two landlords, two
\* streaming services every 30 days, a gym weekly and a third
\* streaming service fortnightly
ChargeSeries ==
    <<Series("Landlord", "rent", -900, 367, 30, 3, 9 * 3600),
      Series("Netflix", "streaming", -10, 367, 30, 3, 7 * 3600),
      Series("Agency", "rent", -950, 367, 30, 3, 9 * 3600),
      Series("Spotify", "streaming", -12, 367, 30, 3, 7 * 3600),
      Series("Gym", "fitness", -30, 413, 7, 3, 18 * 3600),
      Series("Disney", "streaming", -15, 399, 14, 3, 7 * 3600)>>

\* the series of chosen, in the order of ChargeSeries
ChosenSeries(chosen) ==
    FlattenSeqs([i \in DOMAIN ChargeSeries |->
                    IF i \in chosen THEN ChargeSeries[i] ELSE <<>>], 1)

InitSubscriptions ==
    \E chosen \in SUBSET DOMAIN ChargeSeries : Entered(ChosenSeries(chosen))

SpecSubscriptions == InitSubscriptions /\ [][Next]_vars

\* what a category spends in January and in February 2025; <<0, 0>> is a
\* category that is not in the batch
MonthPairs == {<<0, 0>>, <<20, 30>>, <<100, 180>>, <<10, 14>>, <<40, 44>>, <<40, 50>>}

RisingCategories == <<"groceries", "streaming", "snacks", "shopping">>

\* one spend of the category on the 10th of January and of February 2025
TwoMonths(category, pair) ==
    IF pair = <<0, 0>> THEN <<>>
    ELSE <<Tx(-pair[1], Ordinal(2025, 1, 10), 10 * 3600, "Tesco", category),
           Tx(-pair[2], Ordinal(2025, 2, 10), 10 * 3600, "Tesco", category)>>

\* three categories with any of the pairs, a fourth absent or doubling, and
\* possibly a salary on the first of March, a month without spend
InitRising ==
    \E pairs \in [1..3 -> MonthPairs], fourth \in {<<0, 0>>, <<20, 40>>},
       salary \in BOOLEAN :
        Entered(FlattenSeqs([i \in 1..3 |-> TwoMonths(RisingCategories[i], pairs[i])], 1)
                \o TwoMonths(RisingCategories[4], fourth)
                \o (IF salary
                    THEN <<Tx(1000, Ordinal(2025, 3, 1), 9 * 3600, "Employer", "salary")>>
                    ELSE <<>>))

SpecRising == InitRising /\ [][Next]_vars

\* the most ride-hail trips in one month of a batch of SpecRidehail
MaxTrips == 5

\* count rides of fare pounds on successive evenings from the 2nd of the month
Rides(year, month, count, fare) ==
    [i \in 1..count |-> Tx(-fare, Ordinal(year, month, 1 + i), 19 * 3600, "Uber", "uber")]

\* rides in January and in February 2025, with or without a fare refunded in
\* February and a grocery spend in March, a month without rides
InitRidehail ==
    \E earlier \in 0..MaxTrips, latest \in 0..MaxTrips, fare \in {4, 9},
       refund \in BOOLEAN, after \in BOOLEAN :
        Entered(Rides(2025, 1, earlier, fare + 1)
                \o Rides(2025, 2, latest, fare)
                \o (IF refund
                    THEN <<Tx(fare, Ordinal(2025, 2, 20), 9 * 3600, "Uber", "uber")>>
                    ELSE <<>>)
                \o (IF after
                    THEN <<Tx(-30, Ordinal(2025, 3, 5), 10 * 3600, "Tesco", "groceries")>>
                    ELSE <<>>))

SpecRidehail == InitRidehail /\ [][Next]_vars

\* the most records of a batch of SpecCarry
MaxCarry == 3

\* records with fields of the caller's own (id, note), a record that already
\* holds stale values under keys the enrichment writes, a record with nothing
\* but a timestamp, and a record in another currency
CarryUniverse ==
    {[id |-> "t1", note |-> "club card"] @@ Tx(-10, 307, 9 * 3600, "Tesco", "tesco"),
     [id |-> "t2"] @@ Tx(1000, 340, 9 * 3600, "Employer", "salary"),
     [amount |-> -30, ts |-> [day |-> 309, sod |-> 0], id |-> "t3",
      week_key |-> <<1999, 1>>, is_spend |-> FALSE, hour |-> 99],
     [ts |-> [day |-> 372, sod |-> 23 * 3600]],
     [amount |-> -20, currency |-> "USD", ts |-> [day |-> 371, sod |-> 0],
      merchant |-> "Tesco", category |-> "groceries"]}

InitCarry == \E txs \in SeqsUpTo(CarryUniverse, MaxCarry) : Entered(txs)

SpecCarry == InitCarry /\ [][Next]_vars

\* the most rows in a batch of SpecSpikes
MaxPriced == 3

\* the amounts of SpecSpikes in pence: 0.85, 12.99, 13.00 and 20.00 pounds
PricedAmounts == {85, 1299, 1300, 2000}

\* the merchant of the i-th row of a batch of SpecSpikes
PricedMerchants == <<"Tesco", "Aldi", "Lidl", "Asos", "Kiosk">>

\* the row preprocess returns for the i-th record of a batch of SpecSpikes, a
\* spend of pence / 100 pounds on the i-th day after Monday 2025-01-06, with
\* the fields the single-day scan of detect_anomalies reads
Priced(pence, category, i) ==
    [amount |-> FNeg(FQuot(pence, 100)),
     is_spend |-> TRUE,
     category |-> category,
     ts |-> [day |-> 371 + i, sod |-> 12 * 3600],
     merchant |-> PricedMerchants[i]]

\* preprocess has returned: up to MaxPriced spends of one ISO week at pairwise
\* different merchants, each in shopping or rent
InitSpikes ==
    \E n \in 1..MaxPriced :
        \E pence \in [1..n -> PricedAmounts], category \in [1..n -> {"shopping", "rent"}] :
            /\ rows = [i \in 1..n |-> Priced(pence[i], category[i], i)]
            /\ transactions = [i \in 1..n |->
                    [amount |-> rows[i].amount, ts |-> rows[i].ts,
                     merchant |-> rows[i].merchant, category |-> rows[i].category]]
            /\ pc = "preprocessed"
            /\ raised = ""
            /\ trends = NotRun
            /\ patterns = NotRun
            /\ recurring = <<>>
            /\ anomalies = <<>>
            /\ variances = NotRun
            /\ suggestions = <<>>
            /\ challenges = <<>>
            /\ report = NotRun
            /\ finished = {"preprocess"}
            /\ module_state = ModuleAtImport
            /\ interpreter \in [float_sum : {"sequential", "compensated"}]
            /\ given_baselines = <<>>
            /\ gemini_client = GeminiAtImport("env-key", TRUE)
            /\ returned = <<>>

\* detect_anomalies called on rows of one ISO week at pairwise different
\* merchants: the rolling scan reports from the third week of a category on
\* and the duplicate scan a merchant met twice, so what is returned is what
\* the single-day scan appends
DetectAnomaliesOfOneWeek ==
    /\ pc = "preprocessed"
    /\ anomalies' =
           Map(single_day_spike_rows(Filter(rows, LAMBDA r : r.is_spend),
                                     LAMBDA r : FAbs(r.amount)),
               LAMBDA r : [category |-> r.category,
                           period |-> r.ts,
                           amount |-> FAbs(r.amount),
                           reason |-> "single_day_spike",
                           merchant |-> r.merchant])
    /\ finished' = finished \cup {"detect_anomalies"}
    /\ pc' = "anomalies_returned"
    /\ UNCHANGED <<raised, rows, trends, patterns, recurring,
                   variances, suggestions, challenges, report>>
    /\ Kept

SpecSpikes == InitSpikes /\ [][DetectAnomaliesOfOneWeek]_vars

\* the most calls of get_gemini_client in SpecClient
MaxClientCalls == 4

\* the keyword arguments of a call: none, another key, an api_key of None
\* (empty here), another model
OverrideChoices ==
    {<<>>, [api_key |-> "other-key"], [api_key |-> ""], [model_name |-> "models/other"]}

\* gemini_client.py has been imported, with or without the library and with
\* or without an API key in the environment; no batch is analysed
InitClient ==
    \E api_key \in {"", "env-key"}, installed \in BOOLEAN :
        EnteredIn(<<>>, <<>>, GeminiAtImport(api_key, installed))

\* one call get_gemini_client(**overrides) from start to end
GetGeminiClient ==
    /\ Len(gemini_client.calls) < MaxClientCalls
    /\ \E overrides \in OverrideChoices :
           gemini_client' = get_gemini_client(gemini_client, overrides)
    /\ UNCHANGED <<transactions, pc, raised, rows, trends, patterns, recurring,
                   anomalies, variances, suggestions, challenges, report, finished,
                   module_state, interpreter, given_baselines, returned>>

SpecClient == InitClient /\ [][GetGeminiClient]_vars

\* how many months before April 2025 the oldest spend of SpecForecast may lie
MaxBack == 12

\* one grocery spend of 10 * k pounds in the month k months before April 2025
SpendBack(k) ==
    LET mk == add_months(<<2025, 4>>, -k)
    IN  Tx(-(10 * k), Ordinal(mk[1], mk[2], 15), 10 * 3600, "Tesco", "groceries")

\* the months of backs, oldest first
SpendsBack(backs) ==
    LET RECURSIVE From(_)
        From(k) == IF k < 0 THEN <<>>
                   ELSE (IF k \in backs THEN <<SpendBack(k)>> ELSE <<>>) \o From(k - 1)
    IN  From(MaxBack)

\* no row at all, or a spend of 90 in April 2025 after spends in up to two of
\* the MaxBack months before it and with or without a salary in May 2024, the
\* month twelve months before the month forecast
InitForecast ==
    \/ Entered(<<>>)
    \/ \E backs \in {S \in SUBSET (1..MaxBack) : Cardinality(S) <= 2},
          salary \in SeqsUpTo({Tx(1000, Ordinal(2024, 5, 28), 9 * 3600,
                                  "Employer", "salary")}, 1) :
        Entered(salary \o SpendsBack(backs)
                \o <<Tx(-90, Ordinal(2025, 4, 15), 10 * 3600, "Tesco", "groceries")>>)

SpecForecast == InitForecast /\ [][Next]_vars

\* the weeks, counted from Monday 2024-12-30, that carry rows in SpecCash
MaxWeek == 3

\* the rows of one week of SpecCash: none, a spend, a salary, or a spend and a
\* smaller refund
CashWeek(week, kind) ==
    CASE kind = "none" -> <<>>
      [] kind = "spend" ->
            <<Tx(-50, 364 + 7 * (week - 1) + 2, 13 * 3600, "Asos", "shopping")>>
      [] kind = "salary" ->
            <<Tx(200, 364 + 7 * (week - 1) + 4, 9 * 3600, "Employer", "salary")>>
      [] kind = "refund" ->
            <<Tx(-50, 364 + 7 * (week - 1), 13 * 3600, "Asos", "shopping"),
              Tx(30, 364 + 7 * (week - 1) + 6, 13 * 3600, "Asos", "shopping")>>

\* the rows of the weeks 1..Len(kinds)
CashWeeks(kinds) ==
    LET RECURSIVE From(_)
        From(week) == IF week > Len(kinds) THEN <<>>
                      ELSE CashWeek(week, kinds[week]) \o From(week + 1)
    IN  From(1)

InitCash ==
    \E kinds \in [1..MaxWeek -> {"none", "spend", "salary", "refund"}] :
        Entered(CashWeeks(kinds))

SpecCash == InitCash /\ [][Next]_vars

\* the weeks, counted from Monday 2024-12-30, whose small spends SpecLeaks draws
MaxLeakWeeks == 3

\* count snack spends of 4 pounds in the week-th week, spread over its days
SmallSpends(week, count) ==
    [j \in 1..count |->
        Tx(-4, 364 + 7 * (week - 1) + ((j - 1) % 7), (8 + j) * 3600, "Kiosk", "snacks")]

\* counts[i] small spends in week i
LeakWeeks(counts) ==
    LET RECURSIVE From(_)
        From(week) == IF week > Len(counts) THEN <<>>
                      ELSE SmallSpends(week, counts[week]) \o From(week + 1)
    IN  From(1)

\* rows that are no small leaks: seven grocery spends of 3 pounds (a necessity)
\* and seven snack spends of exactly 5 pounds, all in the second week
NoLeaks ==
    [j \in 1..7 |-> Tx(-3, 371 + (j - 1), 10 * 3600, "Tesco", "groceries")]
    \o [j \in 1..7 |-> Tx(-5, 371 + (j - 1), 11 * 3600, "Kiosk", "snacks")]

\* none, one or seven small spends in each of the first MaxLeakWeeks weeks, or
\* five weeks of which the second and the fourth have none, with or without
\* the rows that are no leaks
InitLeaks ==
    \E counts \in [1..MaxLeakWeeks -> {0, 1, 7}]
                    \cup {<<1, 0, 7, 0, 7>>, <<7, 8>>, <<7, 9>>},
       others \in {<<>>, NoLeaks} :
        Entered(LeakWeeks(counts) \o others)

SpecLeaks == InitLeaks /\ [][Next]_vars

\* the most rows beside the charge series in a batch of SpecGhost
MaxOthers == 2

\* rows around three streaming charges of Netflix that end on day 427 at
\* 08:00: another streaming merchant 61 days, 60 days and an hour, and exactly
\* 60 days before that, a refund of that merchant, a grocery spend, and a
\* later salary
GhostRows ==
    {Tx(-12, 366, 8 * 3600, "Spotify", "streaming"),
     Tx(-12, 367, 7 * 3600, "Spotify", "streaming"),
     Tx(-12, 367, 8 * 3600, "Spotify", "streaming"),
     Tx(5, 400, 8 * 3600, "Spotify", "streaming"),
     Tx(-30, 420, 12 * 3600, "Tesco", "groceries"),
     Tx(1000, 428, 7 * 3600, "Employer", "salary")}

\* three charges of Netflix, 30 or 7 days apart, the last on day 427
InitGhost ==
    \E interval \in {7, 30}, others \in SeqsUpTo(GhostRows, MaxOthers) :
        Entered(Series("Netflix", "streaming", -10, 427 - 2 * interval, interval, 3,
                       8 * 3600) \o others)

SpecGhost == InitGhost /\ [][Next]_vars

\* the most rows of a batch of SpecDuplicates
MaxCharges == 3

\* a record offset seconds after 23:56:40 on day 400
ChargeAt(amount, offset, merchant) ==
    Tx(amount, 400 + (86200 + offset) \div 86400, (86200 + offset) % 86400,
       merchant, "snacks")

\* charges of 5 at the kiosk 300, 300 and 301 seconds apart across midnight,
\* and at the second of them a charge of 6, a charge of 5 at another
\* merchant and, half-way to it, a refund of 5 from the kiosk
Charges ==
    {ChargeAt(-5, 0, "Kiosk"), ChargeAt(-5, 300, "Kiosk"), ChargeAt(-5, 600, "Kiosk"),
     ChargeAt(-5, 901, "Kiosk"), ChargeAt(-6, 300, "Kiosk"), ChargeAt(-5, 300, "Asos"),
     ChargeAt(5, 150, "Kiosk")}

\* the charges in any order of arrival, a charge possibly twice
InitDuplicates == \E batch \in SeqsUpTo(Charges, MaxCharges) : Entered(batch)

SpecDuplicates == InitDuplicates /\ [][Next]_vars

\* the most calls of analyse_spending that the process of SpecCalls makes
MaxCalls == 3

\* the batches of SpecCalls: none, groceries at two merchants nine weeks
\* apart, the same with a salary, and one that preprocess rejects
CallBatches ==
    LET groceries == <<Tx(-10, 307, 9 * 3600, "Aldi", "aldi"),
                       Tx(-100, 370, 20 * 3600, "Tesco", "Groceries")>>
    IN  {<<>>,
         groceries,
         groceries \o <<Tx(1000, 371, 9 * 3600, "Employer", "salary")>>,
         <<[amount |-> -20, currency |-> "USD", ts |-> [day |-> 371, sod |-> 0],
            merchant |-> "Tesco", category |-> "groceries"]>>}

\* analyse_spending has returned or raised, and the caller calls it again:
\* the locals of the ended call are gone, the module and the interpreter stay
NextCall ==
    /\ pc \in {"done", "raised"}
    /\ Len(returned) + 1 < MaxCalls
    /\ returned' = Append(returned, [transactions |-> transactions,
                                     raised |-> raised,
                                     report |-> report])
    /\ transactions' \in CallBatches
    /\ pc' = "start"
    /\ raised' = ""
    /\ rows' = <<>>
    /\ trends' = NotRun
    /\ patterns' = NotRun
    /\ recurring' = <<>>
    /\ anomalies' = <<>>
    /\ variances' = NotRun
    /\ suggestions' = <<>>
    /\ challenges' = <<>>
    /\ report' = NotRun
    /\ finished' = {}
    /\ UNCHANGED <<module_state, interpreter, given_baselines, gemini_client>>

\* one process calling analyse_spending again and again
NextCalls == Next \/ NextCall

InitCalls == \E txs \in CallBatches : Entered(txs)

SpecCalls == InitCalls /\ [][NextCalls]_vars

-----------------------------------------------------------------------------
(* Claims                                                                  *)

Started == pc # "start"
Cleaned == "preprocess" \in finished
TrendsDone == "monthly_trends" \in finished
PatternsDone == "pattern_mining" \in finished
RecurringDone == "detect_recurring" \in finished
AnomaliesDone == "detect_anomalies" \in finished
VariancesDone == "compute_variances" \in finished
SuggestionsDone == "build_suggestions" \in finished
ChallengesDone == "build_challenges" \in finished

\* the record has another currency than GBP or no timestamp
Invalid(tx) ==
    \/ ("currency" \in DOMAIN tx /\ tx.currency # "GBP")
    \/ "ts" \notin DOMAIN tx

\* C1: a batch with at least one record of another currency or without a
\* timestamp ends preprocess / analyse_spending in a validation error: no rows,
\* no stage result and no report are returned, wherever the record stands.
C1_InvalidRecordAbortsBatch ==
    (Started /\ \E i \in DOMAIN transactions : Invalid(transactions[i]))
        => /\ pc = "raised"
           /\ raised \in {"ValueError: unsupported currency",
                          "ValueError: missing timestamp"}
           /\ rows = <<>>
           /\ trends = NotRun
           /\ report = NotRun

\* an invalid record in last place, after two records that are accepted
C1_Witness ==
    /\ pc = "raised"
    /\ Len(transactions) = 3
    /\ Invalid(transactions[3])
    /\ ~Invalid(transactions[1])
    /\ ~Invalid(transactions[2])

\* 100 times the linear-interpolated 99th percentile of the spend magnitudes of
\* category cat over all rows
C2_Cap100(cat) ==
    LET mags == SortBy(Map(Filter(rows, LAMBDA r : r.amount < 0 /\ r.category = cat),
                           LAMBDA r : -r.amount),
                       LAMBDA x, y : x < y)
        n == Len(mags)
        k == (99 * (n - 1)) \div 100
        f == (99 * (n - 1)) % 100
    IN  IF n = 1 THEN 100 * mags[1]
        ELSE mags[k + 1] * (100 - f) + mags[Min(k + 2, n)] * f

\* C2: after preprocess every spend row's winsorised amount is negative, its
\* magnitude is at most the raw magnitude and at most the 99th-percentile cap
\* of the row's normalised category.
C2_WinsorisedWithinRawAndCap ==
    Cleaned =>
        \A i \in DOMAIN rows :
            rows[i].amount < 0 =>
                LET w == rows[i].amount_winsorised
                IN  /\ w.n < 0
                    /\ -w.n <= -rows[i].amount * w.d
                    /\ -w.n * 100 <= C2_Cap100(rows[i].category) * w.d

\* a spend row that was clipped below its raw magnitude
C2_Witness ==
    /\ Cleaned
    /\ \E i \in DOMAIN rows :
        /\ rows[i].amount < 0
        /\ -rows[i].amount_winsorised.n < -rows[i].amount * rows[i].amount_winsorised.d

\* C3: for the empty batch every stage finishes without raising and returns
\* empty or zero results.
C3_EmptyBatchGivesEmptyResults ==
    transactions = <<>> =>
        /\ pc # "raised"
        /\ raised = ""
        /\ rows = <<>>
        /\ TrendsDone =>
            /\ trends.monthly_spend = <<>>
            /\ trends.monthly_income = <<>>
            /\ trends.spend_moving_average = <<>>
            /\ trends.income_moving_average = <<>>
            /\ trends.spend_mom_pct = <<>>
            /\ trends.income_mom_pct = <<>>
            /\ trends.category_spend = <<>>
            /\ trends.category_share = <<>>
            /\ trends.forecast = NoForecast
        /\ PatternsDone =>
            /\ DOMAIN patterns = {"dow_peaks", "time_buckets", "merchant_hhi",
                                  "merchant_hhi_details", "small_leaks", "cashflow",
                                  "late_night", "ridehail_usage", "category_30d_spend"}
            /\ patterns.dow_peaks = <<>>
            /\ patterns.time_buckets = <<>>
            /\ patterns.merchant_hhi = <<>>
            /\ patterns.merchant_hhi_details = <<>>
            /\ patterns.small_leaks = <<>>
            /\ patterns.cashflow.weekly_net = <<>>
            /\ patterns.cashflow.squeezes = <<>>
            /\ patterns.late_night = <<>>
            /\ DOMAIN patterns.ridehail_usage = {}
            /\ patterns.category_30d_spend = <<>>
        /\ recurring = <<>>
        /\ anomalies = <<>>
        /\ VariancesDone =>
            /\ variances.per_category = <<>>
            /\ variances.total_projection.n = 0
            /\ variances.total_baseline.n = 0
        /\ suggestions = <<>>
        /\ challenges = <<>>
        /\ pc = "done" =>
            /\ report.summary.period = <<>>
            /\ report.summary.total_spend_30d = 0
            /\ report.summary.projected_spend_curr_month.n = 0
            /\ report.summary.top_rising_categories = <<>>
            /\ report.summary.top_saving_opportunities = <<>>
            /\ report.recurring = <<>>
            /\ report.anomalies = <<>>
            /\ report.suggestions = <<>>
            /\ report.challenges = <<>>

\* the report of the empty batch
C3_Witness == transactions = <<>> /\ pc = "done"

\* the month keys of d are strictly increasing by year, then month
C6_Chronological(d) ==
    \A i \in 1..(Len(d) - 1) : d[i].k[1] * 12 + d[i].k[2] < d[i + 1].k[1] * 12 + d[i + 1].k[2]

\* C6: in every monthly series of monthly_trends the month keys are in strictly
\* increasing chronological order, whatever the order of the input rows.
C6_MonthlySeriesChronological ==
    TrendsDone =>
        /\ C6_Chronological(trends.monthly_spend)
        /\ C6_Chronological(trends.monthly_income)
        /\ C6_Chronological(trends.spend_moving_average)
        /\ C6_Chronological(trends.income_moving_average)
        /\ \A i \in DOMAIN trends.category_spend :
                C6_Chronological(trends.category_spend[i].v)

\* rows given latest month first, across the year boundary: the series runs
\* 2024-11, 2024-12, 2025-01
C6_Witness ==
    /\ TrendsDone
    /\ Keys(trends.monthly_spend) = <<(<<2024, 11>>), (<<2024, 12>>), (<<2025, 1>>)>>
    /\ transactions[1].ts.day > transactions[2].ts.day
    /\ transactions[2].ts.day > transactions[3].ts.day
    /\ trends.category_spend # <<>>

\* the month_over_month dict mom of the series d has exactly one entry for each
\* month of d: None for the first month and after a zero value, else the
\* relative change
C7_MomOf(d, mom) ==
    /\ Len(mom) = Len(d)
    /\ \A i \in DOMAIN d :
        /\ Cardinality({j \in DOMAIN mom : mom[j].k = d[i].k}) = 1
        /\ LET got == mom[CHOOSE j \in DOMAIN mom : mom[j].k = d[i].k].v
           IN  IF i = 1 THEN got = NoneFloat
               ELSE IF d[i - 1].v.n = 0 THEN got = NoneFloat
               ELSE /\ got # NoneFloat
                    /\ got.n * d[i - 1].v.n * d[i].v.d * d[i - 1].v.d
                         = (d[i].v.n * d[i - 1].v.d - d[i - 1].v.n * d[i].v.d)
                            * d[i - 1].v.d * got.d

\* C7: month_over_month gives None for the first month and after a month whose
\* value is 0, (curr - prev) / prev otherwise, one entry per month.
C7_MonthOverMonth ==
    TrendsDone =>
        /\ C7_MomOf(trends.monthly_spend, trends.spend_mom_pct)
        /\ C7_MomOf(trends.monthly_income, trends.income_mom_pct)

\* a spend series with a month after a zero month and a month after a
\* non-zero month
C7_Witness ==
    /\ TrendsDone
    /\ \E i \in 2..Len(trends.monthly_spend) : trends.monthly_spend[i - 1].v.n = 0
    /\ \E i \in 2..Len(trends.monthly_spend) :
            /\ trends.monthly_spend[i - 1].v.n # 0
            /\ DictGet(trends.spend_mom_pct, trends.monthly_spend[i].k, NoneFloat)
                   # NoneFloat

\* the outputs of the six generators, concatenated in their fixed order
GeneratorOutputs ==
    subscription_suggestions(recurring, patterns)
    \o merchant_swap_suggestions(patterns)
    \o drip_spend_suggestions(patterns)
    \o late_night_suggestions(patterns)
    \o ridehail_suggestions(patterns)
    \o cashflow_buffer_suggestions(patterns, recurring)

\* C4: the suggestions are at most 10, and they are the first min(10, n)
\* entries of the concatenated generator outputs, n being its length.
C4_SuggestionsAreFirstTenOfGenerators ==
    SuggestionsDone =>
        /\ Len(suggestions) <= 10
        /\ Len(suggestions) = Min(10, Len(GeneratorOutputs))
        /\ \A i \in DOMAIN suggestions : suggestions[i] = GeneratorOutputs[i]

\* the generators give more than 10 suggestions, from at least three of them,
\* and 10 are returned
C4_Witness ==
    /\ SuggestionsDone
    /\ Len(GeneratorOutputs) > 10
    /\ Len(suggestions) = 10
    /\ Cardinality({suggestions[i].type : i \in DOMAIN suggestions}) >= 3

\* the challenges build_challenges had to choose from
Candidates == ChallengeCandidates(suggestions, patterns, variances)

\* C5: at most 3 challenges are returned, in order of non-increasing
\* expected_saving, each of them a candidate, and no candidate left out has a
\* larger expected_saving than a returned one.
C5_ChallengesAreTopThree ==
    ChallengesDone =>
        /\ Len(challenges) <= 3
        /\ Len(challenges) = Min(3, Len(Candidates))
        /\ \A i \in 1..(Len(challenges) - 1) :
                RLe(challenges[i + 1].expected_saving, challenges[i].expected_saving)
        /\ \A i \in DOMAIN challenges : challenges[i] \in Range(Candidates)
        /\ \A c \in Range(Candidates) :
                c \notin Range(challenges) =>
                    \A i \in DOMAIN challenges :
                        RLe(c.expected_saving, challenges[i].expected_saving)

\* all four candidates are built, not in the order of their savings, and three
\* are returned
C5_Witness ==
    /\ ChallengesDone
    /\ Len(Candidates) = 4
    /\ Len(challenges) = 3
    /\ \E i \in 1..3 :
            RLt(Candidates[i].expected_saving, Candidates[i + 1].expected_saving)

\* the spend rows of category cat dated inside the 8 weeks that end at the
\* latest row of the batch
WindowRows(cat) ==
    Filter(rows, LAMBDA r :
        /\ r.is_spend
        /\ r.category = cat
        /\ \A q \in Range(rows) : Seconds(r.dt) >= Seconds(q.dt) - 56 * 86400)

WindowMerchants(cat) == {r.merchant_normalised : r \in Range(WindowRows(cat))}

\* the exact share of merchant m in the window of cat
WindowShare(cat, m) ==
    Rat(SumAbs(Filter(WindowRows(cat), LAMBDA r : r.merchant_normalised = m)),
        SumAbs(WindowRows(cat)))

\* the reported top_share of cat is the largest share of its window
TopShareIsLargest(cat) ==
    LET detail == DictGet(patterns.merchant_hhi_details, cat, <<>>)
    IN  /\ \E m \in WindowMerchants(cat) : REq(detail.top_share, WindowShare(cat, m))
        /\ \A m \in WindowMerchants(cat) : RLe(WindowShare(cat, m), detail.top_share)

\* h >= 1/n, either in exact arithmetic or against the double that 1 / n gives
AtLeastOneOverN(h, n) == FGeRatio(h, <<1>>, n) \/ FLe(FQuot(1, n), h)

\* h >= (1 - 2^-48) / n in exact arithmetic
AtLeastOneOverNRounded(h, n) ==
    FGeRatio([h EXCEPT !.e = @ + 48], BSub(BPow2(48), <<1>>), n)

SpendOf(m) == Filter(rows, LAMBDA r : r.is_spend /\ r.merchant_normalised = m)

SpendMerchants == {r.merchant_normalised : r \in {q \in Range(rows) : q.is_spend}}

\* m has exactly 3 spend charges, of one amount, on days 30 apart
ThreeMonthlyCharges(m) ==
    LET txs == SpendOf(m)
    IN  /\ Len(txs) = 3
        /\ \A i \in 1..3 : txs[i].amount = txs[1].amount
        /\ \E d \in {txs[i].date : i \in 1..3} :
                {txs[i].date : i \in 1..3} = {d, d + 30, d + 60}

\* the recurring list holds m with interval 30 and the given type
ReportedMonthly(m, type) ==
    \E i \in DOMAIN recurring :
        /\ recurring[i].merchant_key = m
        /\ recurring[i].interval_days = 30
        /\ recurring[i].type = type

\* C9 as stated: a merchant with exactly 3 spend charges of the same amount
\* spaced exactly 30 days apart is reported with interval_days 30 and type
\* 'subscription', whatever the amount.
C9_SubscriptionForEveryAmount ==
    RecurringDone =>
        \A m \in SpendMerchants :
            ThreeMonthlyCharges(m) => ReportedMonthly(m, "subscription")

\* C9, amended: a merchant with exactly 3 spend charges of the same amount
\* spaced exactly 30 days apart is reported with interval_days 30; its type is
\* 'subscription' when the amount's magnitude is at most 200 and 'rent' when
\* it is greater than 200.
C9_SubscriptionUpTo200RentAbove ==
    RecurringDone =>
        \A m \in SpendMerchants :
            ThreeMonthlyCharges(m) =>
                ReportedMonthly(m, IF Abs(SpendOf(m)[1].amount) > 200
                                   THEN "rent" ELSE "subscription")

\* three monthly charges of 200 reported as a subscription, beside rows of
\* other merchants
C9_Witness ==
    /\ RecurringDone
    /\ \E m \in SpendMerchants :
            /\ ThreeMonthlyCharges(m)
            /\ Abs(SpendOf(m)[1].amount) = 200
            /\ ReportedMonthly(m, "subscription")
    /\ Len(rows) > 3

\* C10: every recurring charge whose category is in the rent set and whose
\* absolute median amount is greater than 200 has type 'rent', at each of the
\* intervals 7, 14 and 30; every recurring charge with absolute median amount
\* at most 200 has type 'subscription'.
C10_RentAbove200InRentCategory ==
    RecurringDone =>
        \A i \in DOMAIN recurring :
            LET entry == recurring[i]
                magnitude == RAbs(entry.median_amount)
            IN  /\ entry.interval_days \in {7, 14, 30}
                /\ (entry.category \in {"housing.rent", "rent"}
                    /\ RLt(RInt(200), magnitude)) => entry.type = "rent"
                /\ RLe(magnitude, RInt(200)) => entry.type = "subscription"

\* a weekly charge of a rent category above 200, reported as rent
C10_Witness ==
    /\ RecurringDone
    /\ \E i \in DOMAIN recurring :
            /\ recurring[i].category \in {"housing.rent", "rent"}
            /\ recurring[i].interval_days = 7
            /\ RLt(RInt(200), RAbs(recurring[i].median_amount))
            /\ recurring[i].type = "rent"

-----------------------------------------------------------------------------
(* C11: rolling spike after a flat history                                 *)

SpendRowsOf(cat) == Filter(rows, LAMBDA r : r.is_spend /\ r.category = cat)

\* the ISO weeks with spend in the category, in calendar order
SpendWeeks(cat) ==
    SortBy(InsertionOrder(Map(SpendRowsOf(cat), LAMBDA r : r.week_key)),
           LAMBDA a, b : week_key_to_date(a) < week_key_to_date(b))

\* the weekly spend totals of the category, in calendar order
WeeklyTotals(cat) ==
    Map(SpendWeeks(cat), LAMBDA w :
        SumAbs(Filter(SpendRowsOf(cat), LAMBDA r : r.week_key = w)))

\* the weeks with spend in the category follow each other without a gap
ConsecutiveWeeks(cat) ==
    \A i \in 1..(Len(SpendWeeks(cat)) - 1) :
        week_key_to_date(SpendWeeks(cat)[i + 1]) = week_key_to_date(SpendWeeks(cat)[i]) + 7

\* the category's last week is reported as a spike against the rolling history
LastWeekSpike(cat) ==
    \E i \in DOMAIN anomalies :
        /\ anomalies[i].reason = "spike_vs_rolling"
        /\ anomalies[i].category = cat
        /\ anomalies[i].period = SpendWeeks(cat)[Len(SpendWeeks(cat))]

\* C11 as stated: when a category's weekly spend totals over six consecutive
\* weeks are 100, 100, 100, 100, 100, 300, detect_anomalies reports a
\* spike_vs_rolling anomaly for that category and the last week.
C11_SpikeAfterFlatWeeks ==
    (/\ AnomaliesDone
     /\ ConsecutiveWeeks("groceries")
     /\ WeeklyTotals("groceries") = <<100, 100, 100, 100, 100, 300>>)
        => LastWeekSpike("groceries")

\* C11 amended: when a category's weekly spend totals over six consecutive
\* weeks are five totals of 100 or 110 followed by 300, detect_anomalies
\* reports a spike_vs_rolling anomaly for that category and the last week
\* exactly when the five earlier totals are not all equal; for 100, 100, 100,
\* 100, 100, 300 the standard deviation of the history is zero, the week is
\* skipped and no such anomaly is reported.
C11_SpikeUnlessHistoryIsFlat ==
    (/\ AnomaliesDone
     /\ ConsecutiveWeeks("groceries")
     /\ Len(WeeklyTotals("groceries")) = 6
     /\ \A i \in 1..5 : WeeklyTotals("groceries")[i] \in {100, 110}
     /\ WeeklyTotals("groceries")[6] = 300)
        => (LastWeekSpike("groceries")
                <=> \E i \in 1..5 : WeeklyTotals("groceries")[i]
                                        # WeeklyTotals("groceries")[1])

C11_Witness ==
    /\ AnomaliesDone
    /\ ConsecutiveWeeks("groceries")
    /\ WeeklyTotals("groceries") = <<100, 100, 100, 100, 100, 300>>
    /\ Len(SpendRowsOf("groceries")) = 12
    /\ ~LastWeekSpike("groceries")
    /\ \A i \in DOMAIN anomalies : anomalies[i].reason # "spike_vs_rolling"

-----------------------------------------------------------------------------
(* C12: variance and capped opportunity                                    *)

\* opportunity = min(variance, 0.2 * baseline) when both are positive, else 0
OpportunityRule(v) ==
    /\ v.variance = RSub(v.projection, v.baseline)
    /\ v.opportunity =
         IF RLt(RZero, v.variance) /\ RLt(RZero, v.baseline)
         THEN (IF RLe(v.variance, RMul(Rat(2, 10), v.baseline)) THEN v.variance
               ELSE RMul(Rat(2, 10), v.baseline))
         ELSE RZero
    /\ RLe(RZero, v.baseline)
         => RLe(RZero, v.opportunity) /\ RLe(v.opportunity, RMul(Rat(2, 10), v.baseline))

\* three grocery spends of 50 in three consecutive months, then 55 on day 10
\* of a 30-day month
ThreeFiftiesThenFiftyFive ==
    /\ Len(rows) = 4
    /\ \A i \in 1..4 : rows[i].category = "groceries"
    /\ \A i \in 1..3 : rows[i].amount = -50
                       /\ rows[i].month_key = add_months(rows[4].month_key, i - 4)
    /\ rows[4].amount = -55
    /\ DateOf(rows[4].date).day = 10
    /\ month_days(rows[4].month_key) = 30

\* C12: for every category reported by compute_variances, variance =
\* projection - baseline and opportunity = min(variance, 0.2 * baseline) when
\* variance > 0 and baseline > 0, and 0 otherwise, so 0 <= opportunity <=
\* 0.2 * baseline whenever baseline >= 0; three grocery spends of 50 in three
\* consecutive months followed by 55 on day 10 of a 30-day month give
\* baseline 50, projection 165, variance 115, opportunity 10.
C12_OpportunityIsCappedVariance ==
    VariancesDone =>
        /\ \A i \in DOMAIN variances.per_category :
                OpportunityRule(variances.per_category[i].v)
        /\ ThreeFiftiesThenFiftyFive =>
                /\ Keys(variances.per_category) = <<"groceries">>
                /\ variances.per_category[1].v.baseline = RInt(50)
                /\ variances.per_category[1].v.projection = RInt(165)
                /\ variances.per_category[1].v.variance = RInt(115)
                /\ variances.per_category[1].v.opportunity = RInt(10)

C12_Witness ==
    /\ VariancesDone
    /\ ThreeFiftiesThenFiftyFive
    /\ variances.per_category[1].v.opportunity = RInt(10)
    /\ RLt(variances.per_category[1].v.opportunity, variances.per_category[1].v.variance)

-----------------------------------------------------------------------------
(* C13: the forecast for the month after the last observed month           *)

LastObservedMonth == trends.monthly_spend[Len(trends.monthly_spend)].k

ForecastMonth ==
    IF LastObservedMonth[2] = 12 THEN <<LastObservedMonth[1] + 1, 1>>
    ELSE <<LastObservedMonth[1], LastObservedMonth[2] + 1>>

\* the month 12 months before the forecast month
SeasonalMonth == <<ForecastMonth[1] - 1, ForecastMonth[2]>>

\* the mean of the last 3 monthly values
MeanOfLastThree ==
    RDiv(SumRats(TakeLast(Values(trends.monthly_spend), 3), 1), RInt(3))

\* C13: forecast_next_month, for the month after the last observed month,
\* reports primary model seasonal_naive with the spend of the month 12 months
\* before the forecast month when that month is in the series; when it is
\* not, it reports primary model moving_average with the mean of the last 3
\* monthly values; the other model is the backstop; and it returns nothing
\* when neither value is computable.
C13_SeasonalElseMovingAverage ==
    TrendsDone =>
        IF trends.monthly_spend = <<>> THEN trends.forecast = NoForecast
        ELSE IF HasKey(trends.monthly_spend, SeasonalMonth)
        THEN /\ trends.forecast # NoForecast
             /\ trends.forecast.month = ForecastMonth
             /\ trends.forecast.primary_model = "seasonal_naive"
             /\ trends.forecast.primary_value
                    = DictGet(trends.monthly_spend, SeasonalMonth, NoneFloat)
             /\ trends.forecast.backstop_model = "moving_average"
        ELSE IF Len(trends.monthly_spend) >= 3
        THEN /\ trends.forecast # NoForecast
             /\ trends.forecast.month = ForecastMonth
             /\ trends.forecast.primary_model = "moving_average"
             /\ trends.forecast.primary_value = MeanOfLastThree
             /\ trends.forecast.backstop_model = "seasonal_naive"
        ELSE trends.forecast = NoForecast

\* three observed months, none of them the seasonal month: the forecast is
\* the last month's value under the name seasonal_naive, and the mean of the
\* last three months is the backstop
C13_Witness ==
    /\ TrendsDone
    /\ Len(trends.monthly_spend) = 3
    /\ ~HasKey(trends.monthly_spend, SeasonalMonth)
    /\ trends.forecast # NoForecast
    /\ trends.forecast.primary_model = "seasonal_naive"
    /\ trends.forecast.primary_value = trends.monthly_spend[3].v
    /\ trends.forecast.primary_value # MeanOfLastThree
    /\ trends.forecast.backstop_model = "moving_average"
    /\ trends.forecast.backstop_value = MeanOfLastThree

-----------------------------------------------------------------------------
(* C14: analyse_spending is a pure function of its input                   *)

\* the call has ended: it returned its report or raised
CallEnded == pc \in {"done", "raised"}

\* C14: two invocations of analyse_spending on equal input batches return
\* equal reports (or raise the same error), whatever other batches were
\* analysed before or in between, and no invocation changes the module-level
\* state (CONFIG, the alias and category tables) that a later invocation reads.
C14_EqualBatchesEqualReports ==
    /\ module_state = ModuleAtImport
    /\ CallEnded =>
        \A i \in DOMAIN returned :
            returned[i].transactions = transactions
                => returned[i].report = report /\ returned[i].raised = raised

\* the third call repeats the batch of the first one after a different batch
\* with a different report has been analysed in between
C14_Witness ==
    /\ pc = "done"
    /\ Len(returned) = 2
    /\ transactions # <<>>
    /\ returned[1].transactions = transactions
    /\ returned[1].report = report
    /\ returned[2].transactions # transactions
    /\ returned[2].raised = ""
    /\ returned[2].report # report
    /\ report.patterns.merchant_hhi # <<>>

-----------------------------------------------------------------------------
(* C15: the five row stages are independent of each other                  *)

\* C15: monthly_trends, pattern_mining, detect_recurring, detect_anomalies
\* and compute_variances only read the normalised rows and never write to
\* them or to any shared state, so in every execution order of the five over
\* the same rows each returns the result it returns when run alone on the
\* rows of preprocess; build_suggestions, build_challenges and summarise
\* start only after all five have completed.
C15_RowStagesIndependent ==
    /\ module_state = ModuleAtImport
    /\ Cleaned =>
        Let(preprocess(transactions).cleaned, LAMBDA alone :
            /\ rows = alone
            /\ TrendsDone => trends = monthly_trends(alone)
            /\ PatternsDone => patterns = pattern_mining(alone, interpreter.float_sum)
            /\ RecurringDone => recurring = detect_recurring(alone)
            /\ AnomaliesDone => anomalies = detect_anomalies(alone)
            /\ VariancesDone => variances = compute_variances(alone, <<>>))
    /\ (finished \cap {"build_suggestions", "build_challenges", "summarise"}) # {}
            => RowStages \subseteq finished

\* detect_recurring and compute_variances have returned results before
\* monthly_trends and pattern_mining have started
C15_Witness ==
    /\ pc = "preprocessed"
    /\ finished = {"preprocess", "detect_recurring", "compute_variances"}
    /\ recurring # <<>>
    /\ variances.per_category # <<>>
    /\ trends = NotRun
    /\ patterns = NotRun

-----------------------------------------------------------------------------
(* C16: the shape of the report                                            *)

\* C16: for every accepted input batch, including the empty one, the report
\* of analyse_spending has exactly the top-level fields summary, patterns,
\* recurring, anomalies, suggestions, challenges; summary has exactly period,
\* total_spend_30d, projected_spend_curr_month, top_rising_categories,
\* top_saving_opportunities; patterns has exactly dow_peaks, time_buckets,
\* merchant_hhi, small_leaks, cashflow_squeezes; and every section the
\* suggestion-prompt builder reads is among them.
C16_ReportShape ==
    pc = "done" =>
        /\ DOMAIN report = {"summary", "patterns", "recurring", "anomalies",
                            "suggestions", "challenges"}
        /\ DOMAIN report.summary = {"period", "total_spend_30d",
                                    "projected_spend_curr_month",
                                    "top_rising_categories",
                                    "top_saving_opportunities"}
        /\ DOMAIN report.patterns = {"dow_peaks", "time_buckets", "merchant_hhi",
                                     "small_leaks", "cashflow_squeezes"}
        /\ PromptSections \subseteq DOMAIN report
        /\ PromptSummaryKeys \subseteq DOMAIN report.summary

\* the empty batch is accepted and its report has all the sections, empty
C16_Witness ==
    /\ pc = "done"
    /\ transactions = <<>>
    /\ raised = ""
    /\ DOMAIN report.patterns = {"dow_peaks", "time_buckets", "merchant_hhi",
                                 "small_leaks", "cashflow_squeezes"}
    /\ report.patterns.cashflow_squeezes = <<>>
    /\ report.summary.top_saving_opportunities = <<>>
    /\ report.challenges = <<>>

-----------------------------------------------------------------------------
(* C17: cashflow squeezes                                                  *)

\* the signed net of an ISO week: the sum of the amounts of all its rows
WeekNet(w) ==
    SumInts(Map(Filter(rows, LAMBDA r : r.week_key = w), LAMBDA r : r.amount), 1)

\* the ISO weeks that have rows
RowWeeks == {rows[i].week_key : i \in DOMAIN rows}

\* w2 is the ISO week immediately after w
WeekAfter(w, w2) == week_key_to_date(w2) = week_key_to_date(w) + 7

\* C17: every cashflow squeeze reported by compute_cashflow names a week
\* whose signed net is negative and a following_week that is the ISO week
\* immediately after it (7 days later) and whose net is positive; and every
\* such pair of adjacent weeks is reported.
C17_SqueezeIsAdjacentWeeks ==
    (PatternsDone /\ \E i \in DOMAIN rows : rows[i].is_spend) =>
        /\ \A i \in DOMAIN patterns.cashflow.squeezes :
            LET s == patterns.cashflow.squeezes[i]
            IN  /\ WeekNet(s.week) < 0
                /\ s.net = WeekNet(s.week)
                /\ WeekAfter(s.week, s.following_week)
                /\ WeekNet(s.following_week) > 0
        /\ \A w \in RowWeeks, w2 \in RowWeeks :
            (WeekNet(w) < 0 /\ WeekAfter(w, w2) /\ WeekNet(w2) > 0)
                => \E i \in DOMAIN patterns.cashflow.squeezes :
                        /\ patterns.cashflow.squeezes[i].week = w
                        /\ patterns.cashflow.squeezes[i].following_week = w2

\* a squeeze is reported across a week without rows: its following_week lies
\* 14 days after its week
C17_Witness ==
    /\ PatternsDone
    /\ Len(patterns.cashflow.squeezes) = 1
    /\ WeekNet(patterns.cashflow.squeezes[1].week) < 0
    /\ WeekNet(patterns.cashflow.squeezes[1].following_week) > 0
    /\ week_key_to_date(patterns.cashflow.squeezes[1].following_week)
            = week_key_to_date(patterns.cashflow.squeezes[1].week) + 14

-----------------------------------------------------------------------------
(* C18: small leaks                                                        *)

\* the spend transactions below 5 in non-necessity categories of ISO week w
SmallSpendsOf(w) ==
    {i \in DOMAIN rows :
        /\ rows[i].is_spend
        /\ rows[i].week_key = w
        /\ Abs(rows[i].amount) < 5
        /\ rows[i].category \notin {"groceries", "housing.rent", "rent", "utilities",
                                    "transport.public", "taxes"}}

\* the number of such transactions in the calendar week immediately before w
PriorWeekCount(w) ==
    LET before == {v \in RowWeeks : WeekAfter(v, w)}
    IN  IF before = {} THEN 0
        ELSE Cardinality(SmallSpendsOf(CHOOSE v \in before : TRUE))

\* rising exactly when the count is greater than 1.15 times the prior week's
\* count, a prior week without such transactions counting 0
RisingAgainstPriorWeek(e) ==
    e.rising <=> 100 * e.count > 115 * PriorWeekCount(e.week)

\* the same, with nothing rising against a prior week without such transactions
RisingAgainstNonEmptyPriorWeek(e) ==
    e.rising <=> (PriorWeekCount(e.week) > 0
                    /\ 100 * e.count > 115 * PriorWeekCount(e.week))

\* C18: compute_small_leaks reports exactly the ISO weeks in which the number
\* of spend transactions below 5 in non-necessity categories is greater than
\* 6, in chronological order, and marks such a week rising exactly when its
\* count is greater than 1.15 times the count of the prior week, the
\* calendar week immediately before it (however a prior week without such
\* transactions is read).
C18_LeakWeeksRisingAgainstPriorWeek ==
    (PatternsDone /\ \E i \in DOMAIN rows : rows[i].is_spend) =>
        LET leaks == patterns.small_leaks
        IN  /\ {leaks[i].week : i \in DOMAIN leaks}
                    = {w \in RowWeeks : Cardinality(SmallSpendsOf(w)) > 6}
            /\ \A i \in DOMAIN leaks : leaks[i].count = Cardinality(SmallSpendsOf(leaks[i].week))
            /\ \A i \in 1..(Len(leaks) - 1) :
                    week_key_to_date(leaks[i].week) < week_key_to_date(leaks[i + 1].week)
            /\ \/ \A i \in DOMAIN leaks : RisingAgainstPriorWeek(leaks[i])
               \/ \A i \in DOMAIN leaks : RisingAgainstNonEmptyPriorWeek(leaks[i])

\* two leak weeks of seven, each after a calendar week without small spends:
\* the first is marked rising against the single spend of two weeks before,
\* the second is not, being compared with the seven of two weeks before
C18_Witness ==
    /\ PatternsDone
    /\ Len(patterns.small_leaks) = 2
    /\ patterns.small_leaks[1].count = 7
    /\ patterns.small_leaks[2].count = 7
    /\ PriorWeekCount(patterns.small_leaks[1].week) = 0
    /\ PriorWeekCount(patterns.small_leaks[2].week) = 0
    /\ patterns.small_leaks[1].rising
    /\ ~patterns.small_leaks[2].rising

-----------------------------------------------------------------------------
(* C19: ghost subscriptions                                                *)

\* the latest timestamp of the batch, in seconds
LatestSeconds ==
    CHOOSE s \in {Seconds(rows[i].dt) : i \in DOMAIN rows} :
        \A i \in DOMAIN rows : Seconds(rows[i].dt) <= s

\* a merchant other than merchant_key has a transaction in the category
\* within the 60 days before the batch's latest timestamp
OtherMerchantInLast60(category, merchant_key) ==
    \E i \in DOMAIN rows :
        /\ rows[i].category = category
        /\ rows[i].merchant_normalised # merchant_key
        /\ Seconds(rows[i].dt) >= LatestSeconds - 60 * 86400

\* C19: a recurring charge returned by detect_recurring has
\* ghost_subscription true exactly when its interval is 30 days and no
\* merchant other than itself has a transaction in the charge's category
\* within the 60 days before the batch's latest timestamp.
C19_GhostSubscription ==
    RecurringDone =>
        \A i \in DOMAIN recurring :
            recurring[i].ghost_subscription
                <=> /\ recurring[i].interval_days = 30
                    /\ ~OtherMerchantInLast60(recurring[i].category,
                                              recurring[i].merchant_key)

\* a monthly charge is a ghost subscription although another merchant of its
\* category is in the batch: that merchant's only spend is older than 60 days
C19_Witness ==
    /\ RecurringDone
    /\ Len(recurring) = 1
    /\ recurring[1].interval_days = 30
    /\ recurring[1].ghost_subscription
    /\ \E i \in DOMAIN rows :
        /\ rows[i].category = recurring[1].category
        /\ rows[i].merchant_normalised # recurring[1].merchant_key
        /\ Seconds(rows[i].dt) < LatestSeconds - 60 * 86400
    /\ \E i \in DOMAIN rows : rows[i].is_income

-----------------------------------------------------------------------------
(* C20: near-duplicate charges                                             *)

\* the spend rows in chronological order, rows of one timestamp in the order
\* of the batch
ChronologicalSpend ==
    SortBy(Filter(rows, LAMBDA r : r.is_spend),
           LAMBDA a, b : Seconds(a.dt) < Seconds(b.dt))

\* some earlier spend row of the same normalised merchant and amount is at
\* most 300 seconds before the i-th
EarlierEqualCharge(i) ==
    \E j \in 1..(i - 1) :
        /\ ChronologicalSpend[j].merchant_normalised
               = ChronologicalSpend[i].merchant_normalised
        /\ ChronologicalSpend[j].amount = ChronologicalSpend[i].amount
        /\ Seconds(ChronologicalSpend[i].dt) - Seconds(ChronologicalSpend[j].dt) <= 300

\* the i-th and the rows before it of its merchant and amount form a chain:
\* each at most 300 seconds after the previous one
InChain(i) ==
    LET same == {j \in 1..i :
                    /\ ChronologicalSpend[j].merchant_normalised
                           = ChronologicalSpend[i].merchant_normalised
                    /\ ChronologicalSpend[j].amount = ChronologicalSpend[i].amount}
    IN  /\ Cardinality(same) > 1
        /\ \A j \in same \ {i} :
            \E k \in same : /\ k > j
                            /\ \A l \in same : ~(j < l /\ l < k)
                            /\ Seconds(ChronologicalSpend[k].dt)
                                   - Seconds(ChronologicalSpend[j].dt) <= 300

\* the first row of its merchant and amount
FirstOfGroup(i) ==
    \A j \in 1..(i - 1) :
        \/ ChronologicalSpend[j].merchant_normalised
               # ChronologicalSpend[i].merchant_normalised
        \/ ChronologicalSpend[j].amount # ChronologicalSpend[i].amount

DuplicateEvent(row) ==
    [category |-> row.category, period |-> row.ts, amount |-> Abs(row.amount),
     reason |-> "potential_duplicate", merchant |-> row.merchant]

ReportedDuplicates == Filter(anomalies, LAMBDA a : a.reason = "potential_duplicate")

\* C20: detect_anomalies reports a 'potential_duplicate' anomaly for a spend
\* transaction exactly when some chronologically earlier spend transaction
\* with the same normalised merchant and the same amount rounded to cents
\* occurred at most 300 seconds before it; the first transaction of such a
\* group is never flagged, and in a chain of equal charges each at most 300
\* seconds after the previous one every charge but the first is flagged.
C20_DuplicateWithin300Seconds ==
    AnomaliesDone =>
        /\ ReportedDuplicates
               = Map(SelectIdx(ChronologicalSpend,
                               [i \in DOMAIN ChronologicalSpend |-> EarlierEqualCharge(i)],
                               1),
                     DuplicateEvent)
        /\ \A i \in DOMAIN ChronologicalSpend :
            /\ FirstOfGroup(i) => ~EarlierEqualCharge(i)
            /\ InChain(i) => EarlierEqualCharge(i)

\* three equal charges 300 seconds apart arrive out of order: the second and
\* the third are reported, the third being 600 seconds after the first
C20_Witness ==
    /\ AnomaliesDone
    /\ Len(ChronologicalSpend) = 3
    /\ rows # ChronologicalSpend
    /\ InChain(3)
    /\ Seconds(ChronologicalSpend[3].dt) - Seconds(ChronologicalSpend[1].dt) = 600
    /\ Len(ReportedDuplicates) = 2
    /\ ReportedDuplicates[2].period = ChronologicalSpend[3].ts

-----------------------------------------------------------------------------
(* C21: the rolling spike rule                                             *)

\* the totals of the up to six weeks of the category's weekly spend series
\* before its i-th week, oldest first
SeriesHistory(cat, i) ==
    [j \in 1..Min(i - 1, CONFIG.anomaly_window_weeks) |->
        WeeklyTotals(cat)[i - 1 - Min(i - 1, CONFIG.anomaly_window_weeks) + j]]

\* the week is not skipped, (total - mean(history)) / stdev(history) > 2.0
\* and the percentage change of total against prev is > 0.30
SpikeRule(history, total, prev) ==
    /\ Len(history) >= 2
    /\ Variance(history).n # 0
    /\ RLt(mean(history), RInt(total))
    /\ RLt(RMul(RInt(4), Variance(history)),
           RMul(RSub(RInt(total), mean(history)), RSub(RInt(total), mean(history))))
    /\ prev # 0
    /\ RLt(Rat(30, 100), RDiv(RInt(total - prev), RInt(prev)))

SpikeReported(cat, week) ==
    \E i \in DOMAIN anomalies :
        /\ anomalies[i].reason = "spike_vs_rolling"
        /\ anomalies[i].category = cat
        /\ anomalies[i].period = week

SpendCategories == {rows[i].category : i \in {j \in DOMAIN rows : rows[j].is_spend}}

-----------------------------------------------------------------------------
(* C22: the current month and the baselines of compute_variances           *)

SpendMonthKeys == {rows[i].month_key : i \in {j \in DOMAIN rows : rows[j].is_spend}}

MonthLater(a, b) == a[1] > b[1] \/ (a[1] = b[1] /\ a[2] > b[2])

\* the latest month with spend
LatestSpendMonth ==
    CHOOSE m \in SpendMonthKeys : \A o \in SpendMonthKeys : ~MonthLater(o, m)

\* the months with spend before the latest one
PriorSpendMonths == SpendMonthKeys \ {LatestSpendMonth}

\* the up to 3 months with spend preceding the current month
LastThreePrior ==
    {m \in PriorSpendMonths :
        Cardinality({o \in PriorSpendMonths : MonthLater(o, m)}) < 3}

MostRecentPrior ==
    CHOOSE m \in PriorSpendMonths : \A o \in PriorSpendMonths : ~MonthLater(o, m)

CategoryTotal(cat, m) ==
    SumAbs(Filter(rows, LAMBDA r : r.is_spend /\ r.category = cat /\ r.month_key = m))

\* the category's non-zero totals among the up to 3 preceding months
NonZeroTotals(cat) ==
    Map(Filter(ordered_months(LastThreePrior), LAMBDA m : CategoryTotal(cat, m) # 0),
        LAMBDA m : CategoryTotal(cat, m))

BaselineRule(cat) ==
    IF HasKey(given_baselines, cat) THEN DictGet(given_baselines, cat, RZero)
    ELSE IF NonZeroTotals(cat) # <<>> THEN median(NonZeroTotals(cat))
    ELSE IF PriorSpendMonths # {} THEN RInt(CategoryTotal(cat, MostRecentPrior))
    ELSE RZero

\* C22: in compute_variances the current month is the latest month with
\* spend, and each category's baseline is the externally supplied value when
\* one is given for that category; otherwise the median of that category's
\* non-zero totals among the up to 3 months preceding the current month;
\* otherwise the category's total in the single most recent prior month; and
\* 0 when there is no prior month.
C22_CurrentMonthAndBaseline ==
    (VariancesDone /\ SpendMonthKeys # {}) =>
        /\ variances.current_month = LatestSpendMonth
        /\ {variances.per_category[i].k : i \in DOMAIN variances.per_category}
               = SpendCategories
        /\ \A i \in DOMAIN variances.per_category :
            variances.per_category[i].v.baseline
                = BaselineRule(variances.per_category[i].k)

\* four months precede the current one; groceries cost 80 in the oldest, which
\* is out of reach, and nothing in one of the other three, so the baseline is
\* the median of two totals, while coffee has a supplied baseline of zero
C22_Witness ==
    /\ VariancesDone
    /\ Cardinality(PriorSpendMonths) = 4
    /\ Len(NonZeroTotals("groceries")) = 2
    /\ \E m \in PriorSpendMonths \ LastThreePrior : CategoryTotal("groceries", m) = 80
    /\ HasKey(variances.per_category, "groceries")
    /\ DictGet(variances.per_category, "groceries", NotRun).baseline = Rat(130, 2)
    /\ HasKey(given_baselines, "dining.coffee")
    /\ HasKey(variances.per_category, "dining.coffee")
    /\ DictGet(variances.per_category, "dining.coffee", NotRun).baseline = RZero
    /\ \E m \in LastThreePrior : CategoryTotal("dining.coffee", m) = 7

-----------------------------------------------------------------------------
(* C23: the projection of the current month                                *)

\* the latest day of the current month on which any spend occurred
LatestSpendDay ==
    LET days == {DateOf(rows[i].date).day :
                    i \in {j \in DOMAIN rows : /\ rows[j].is_spend
                                               /\ rows[j].month_key = LatestSpendMonth}}
    IN  CHOOSE d \in days : \A e \in days : e <= d

DaysOfCurrentMonth == DaysInMonth(LatestSpendMonth[1], LatestSpendMonth[2])

\* spent / day_of_month * days_in_month while the month is incomplete
ProjectionRule(spent) ==
    IF LatestSpendDay < DaysOfCurrentMonth
    THEN Rat(spent * DaysOfCurrentMonth, LatestSpendDay)
    ELSE RInt(spent)

\* C23: in compute_variances each category's projection equals
\* spent_so_far / day_of_month * days_in_month when the current month is
\* incomplete (day_of_month, the latest day of the current month on which any
\* spend occurred, is less than the number of days of that month), and equals
\* spent_so_far when day_of_month is the last day of the month;
\* total_projection is the sum of the per-category projections and is the
\* value reported as projected_spend_curr_month.
C23_ProRatedProjection ==
    /\ (VariancesDone /\ SpendMonthKeys # {}) =>
        /\ \A i \in DOMAIN variances.per_category :
            /\ variances.per_category[i].v.spent_so_far
                   = CategoryTotal(variances.per_category[i].k, LatestSpendMonth)
            /\ variances.per_category[i].v.day_of_month = LatestSpendDay
            /\ variances.per_category[i].v.projection
                   = ProjectionRule(variances.per_category[i].v.spent_so_far)
        /\ variances.total_projection
               = SumRats([i \in DOMAIN variances.per_category |->
                            variances.per_category[i].v.projection], 1)
    /\ pc = "done" =>
        report.summary.projected_spend_curr_month = variances.total_projection

\* on the 10th of February 2024 groceries of 55 and a coffee of 3 on the 1st
\* are projected to 29 days: 159.5 + 8.7 = 168.2 is what the summary reports
C23_Witness ==
    /\ pc = "done"
    /\ LatestSpendMonth = <<2024, 2>>
    /\ LatestSpendDay = 10
    /\ HasKey(variances.per_category, "groceries")
    /\ HasKey(variances.per_category, "dining.coffee")
    /\ DictGet(variances.per_category, "groceries", NotRun).projection = Rat(55 * 29, 10)
    /\ DictGet(variances.per_category, "dining.coffee", NotRun).projection = Rat(3 * 29, 10)
    /\ report.summary.projected_spend_curr_month = Rat(1682, 10)

-----------------------------------------------------------------------------
(* C24: subscription suggestions                                           *)

\* what the claim tells of a suggestion
SubscriptionFacts(s) ==
    [merchant |-> s.merchant, category |-> s.category,
     expected_saving |-> s.expected_saving, confidence |-> s.confidence,
     type |-> s.type]

\* the recurring charges a subscription suggestion is due for, in the order
\* of the recurring list
DueForReview ==
    SelectIdx(recurring,
              [i \in DOMAIN recurring |->
                  /\ recurring[i].interval_days = 30
                  /\ (recurring[i].type = "subscription"
                          \/ recurring[i].ghost_subscription)],
              1)

\* C24: subscription_suggestions emits exactly one suggestion, with
\* expected_saving = |median amount|, confidence 0.75 and type 'subscription',
\* for every recurring charge whose interval is 30 days and which is typed
\* 'subscription' or flagged ghost (a ghost-flagged charge typed 'rent'
\* included), and emits none for any other recurring charge; the order of the
\* suggestions follows the order of the recurring list.
C24_SubscriptionSuggestions ==
    SuggestionsDone =>
        Map(Filter(suggestions, LAMBDA s : s.type = "subscription"), SubscriptionFacts)
            = Map(DueForReview, LAMBDA e :
                    [merchant |-> e.merchant, category |-> e.category,
                     expected_saving |-> RAbs(e.median_amount),
                     confidence |-> Rat(75, 100),
                     type |-> "subscription"])

\* five recurring charges: the only landlord (typed rent, flagged ghost) and
\* two streaming services are suggested in the order of the recurring list,
\* which is not the order of the batch; the weekly gym and the fortnightly
\* service are not
C24_Witness ==
    /\ SuggestionsDone
    /\ Len(recurring) = 5
    /\ Len(DueForReview) = 3
    /\ DueForReview[1].type = "rent" /\ DueForReview[1].ghost_subscription
    /\ DueForReview[2].type = "subscription" /\ ~DueForReview[2].ghost_subscription
    /\ DueForReview[2].merchant = "Spotify" /\ DueForReview[3].merchant = "Netflix"
    /\ \E i \in DOMAIN recurring :
        recurring[i].type = "subscription" /\ recurring[i].interval_days = 7
    /\ Len(Filter(suggestions, LAMBDA s : s.type = "subscription")) = 3

-----------------------------------------------------------------------------
(* C25: the top rising categories of the summary                           *)

\* the category's spend of the month as the trend engine adds it up: the
\* winsorised magnitudes
TrendTotal(cat, m) ==
    SumRats(Map(Filter(rows, LAMBDA r : r.is_spend /\ r.category = cat /\ r.month_key = m),
                LAMBDA r : RAbs(r.amount_winsorised)), 1)

\* the category spent at least 15 in the latest month with spend
EnoughSpend(cat) == RLe(RInt(15), TrendTotal(cat, LatestSpendMonth))

\* the category's growth against the month with spend before the latest one
Growth(cat) ==
    RDiv(RSub(TrendTotal(cat, LatestSpendMonth), TrendTotal(cat, MostRecentPrior)),
         TrendTotal(cat, MostRecentPrior))

\* the category meets both thresholds
Rising(cat) ==
    /\ SpendMonthKeys # {}
    /\ PriorSpendMonths # {}
    /\ EnoughSpend(cat)
    /\ TrendTotal(cat, MostRecentPrior).n # 0
    /\ RLe(Rat(10, 100), Growth(cat))

TopRising == report.summary.top_rising_categories

\* C25: the summary's top_rising_categories contains at most 3 categories,
\* each with spend of at least 15 in the current month (the latest month with
\* spend) and month-over-month growth of at least 10% against the month
\* before it, ordered by non-increasing growth; and no omitted category that
\* meets both thresholds has a growth greater than a listed one.
C25_TopRisingCategories ==
    pc = "done" =>
        /\ Len(TopRising) <= 3
        /\ \A i, j \in DOMAIN TopRising : i # j => TopRising[i].category # TopRising[j].category
        /\ \A i \in DOMAIN TopRising :
            /\ Rising(TopRising[i].category)
            /\ TopRising[i].mom_pct = Growth(TopRising[i].category)
        /\ \A i \in 1..(Len(TopRising) - 1) :
            RLe(TopRising[i + 1].mom_pct, TopRising[i].mom_pct)
        /\ \A cat \in SpendCategories \ {TopRising[i].category : i \in DOMAIN TopRising} :
            Rising(cat) => \A i \in DOMAIN TopRising : RLe(Growth(cat), TopRising[i].mom_pct)

\* four categories meet both thresholds: three are listed by falling growth
\* and the one left out grew least
C25_Witness ==
    /\ pc = "done"
    /\ Cardinality({cat \in SpendCategories : Rising(cat)}) = 4
    /\ Len(TopRising) = 3
    /\ RLt(TopRising[2].mom_pct, TopRising[1].mom_pct)
    /\ RLt(TopRising[3].mom_pct, TopRising[2].mom_pct)
    /\ \E cat \in SpendCategories :
        /\ Rising(cat)
        /\ \A i \in 1..3 : cat # TopRising[i].category /\ RLt(Growth(cat), TopRising[i].mom_pct)

-----------------------------------------------------------------------------
(* C26: the ride-hail swap suggestion                                      *)

\* the ride-hail trips: the spend rows of a ride-hail category
RidehailTrips ==
    Filter(rows, LAMBDA r : r.is_spend /\ r.category \in RIDEHAIL_CATEGORIES)

\* the most recent month containing ride-hail spend
RidehailMonth ==
    CHOOSE m \in {RidehailTrips[i].month_key : i \in DOMAIN RidehailTrips} :
        \A i \in DOMAIN RidehailTrips : ~MonthLater(RidehailTrips[i].month_key, m)

TripsOfMonth == Filter(RidehailTrips, LAMBDA r : r.month_key = RidehailMonth)

RidehailSuggestions ==
    Filter(suggestions, LAMBDA s :
        s.category = "transport.ridehail" /\ s.type = "behavioural_nudge")

\* C26: the ride-hail swap suggestion is produced exactly when the trip count
\* of the most recent month containing ride-hail spend is greater than 4,
\* with expected_saving equal to 50% of that month's ride-hail spend and
\* confidence 0.5; with 4 or fewer trips no ride-hail suggestion is produced.
\* What ridehail_suggestions returns for the patterns of the call is what the
\* claim says, and it is what the suggestions of the call hold unless
\* build_suggestions has cut the list at ten.
C26_RidehailSwap ==
    /\ PatternsDone =>
        IF RidehailTrips # <<>> /\ Len(TripsOfMonth) > 4
        THEN /\ Len(ridehail_suggestions(patterns)) = 1
             /\ ridehail_suggestions(patterns)[1].expected_saving
                    = Rat(SumAbs(TripsOfMonth), 2)
             /\ ridehail_suggestions(patterns)[1].confidence = Rat(1, 2)
             /\ ridehail_suggestions(patterns)[1].evidence.trip_count = Len(TripsOfMonth)
             /\ ridehail_suggestions(patterns)[1].evidence.month = RidehailMonth
        ELSE ridehail_suggestions(patterns) = <<>>
    /\ (SuggestionsDone /\ Len(suggestions) < 10) =>
        RidehailSuggestions = ridehail_suggestions(patterns)

\* five rides of 9 in February after three in January, a refund and a later
\* grocery month: the suggestion saves 22.5
C26_Witness ==
    /\ SuggestionsDone
    /\ Len(RidehailTrips) = 8
    /\ Len(TripsOfMonth) = 5
    /\ RidehailMonth = <<2025, 2>>
    /\ LatestSpendMonth = <<2025, 3>>
    /\ \E i \in DOMAIN rows : rows[i].is_income /\ rows[i].category \in RIDEHAIL_CATEGORIES
    /\ Len(RidehailSuggestions) = 1
    /\ RidehailSuggestions[1].expected_saving = Rat(45, 2)

-----------------------------------------------------------------------------
(* C27: preprocess enriches copies                                         *)

\* the keys the enrichment and the winsorisation write
EnrichmentKeys ==
    {"amount", "amount_abs", "ts", "dt", "date", "dow", "hour", "week", "week_year",
     "week_key", "week_start", "month", "month_key", "month_start", "is_spend",
     "is_income", "category", "merchant", "merchant_normalised", "time_bucket",
     "iso_weekday", "amount_winsorised"}

\* one normalised row per input record, in the input order, each with the
\* fields of its record that the enrichment does not write
RowsCarryInput ==
    /\ Len(rows) = Len(transactions)
    /\ \A i \in DOMAIN rows :
        /\ EnrichmentKeys \subseteq DOMAIN rows[i]
        /\ rows[i].ts = transactions[i].ts
        /\ rows[i].amount = Get(transactions[i], "amount", 0)
        /\ \A key \in DOMAIN transactions[i] \ EnrichmentKeys :
            key \in DOMAIN rows[i] /\ rows[i][key] = transactions[i][key]

\* C27: preprocess leaves every input record unchanged (it enriches a copy of
\* each record) and, when it succeeds, returns one normalised row per input
\* record in the input order, each carrying all fields of its input record
\* that the enrichment does not overwrite.
C27_PreprocessEnrichesCopies ==
    [][pc = "start" =>
        /\ transactions' = transactions
        /\ pc' = "preprocessed" => RowsCarryInput']_vars

\* preprocess has returned rows for three records; the caller's record with
\* stale derived fields still holds them, its row holds the derived values
\* and the caller's id
C27_Witness ==
    /\ Cleaned
    /\ Len(transactions) = 3
    /\ RowsCarryInput
    /\ \E i \in DOMAIN transactions :
        /\ "week_key" \in DOMAIN transactions[i]
        /\ transactions[i].week_key = <<1999, 1>>
        /\ transactions[i].hour = 99
        /\ rows[i].week_key = <<2024, 45>>
        /\ rows[i].hour = 0
        /\ rows[i].is_spend
        /\ rows[i].id = "t3"
    /\ \E i \in DOMAIN transactions :
        /\ DOMAIN transactions[i] = {"ts"}
        /\ rows[i].merchant = "unknown"
    /\ \E i \in DOMAIN transactions :
        "note" \in DOMAIN rows[i] /\ rows[i].note = "club card"

-----------------------------------------------------------------------------
(* C28: the largest non-rent spend is a single-day spike                   *)

\* the spend rows outside the rent categories
NonRentSpends ==
    {i \in DOMAIN rows : rows[i].is_spend /\ rows[i].category \notin RENT_CATEGORIES}

\* no non-rent spend is larger than row i
LargestNonRent(i) ==
    \A j \in NonRentSpends : FLe(FAbs(rows[j].amount), FAbs(rows[i].amount))

SingleDaySpikes == {a \in Range(anomalies) : a.reason = "single_day_spike"}

\* row i is reported as a single-day spike
FlaggedSpike(i) ==
    \E a \in SingleDaySpikes :
        /\ a.period = rows[i].ts
        /\ a.merchant = rows[i].merchant
        /\ a.category = rows[i].category

\* C28: for every batch with at least one spend row outside the rent
\* categories, detect_anomalies returns at least one 'single_day_spike'
\* anomaly: every non-rent spend row whose magnitude equals the largest
\* non-rent spend magnitude is flagged, and no rent-category row is ever
\* flagged 'single_day_spike'.
C28_LargestNonRentSpendIsFlagged ==
    AnomaliesDone =>
        /\ NonRentSpends # {} => SingleDaySpikes # {}
        /\ \A i \in NonRentSpends : LargestNonRent(i) => FlaggedSpike(i)
        /\ \A a \in SingleDaySpikes : a.category \notin RENT_CATEGORIES

\* detect_anomalies has returned for a rent of 20.00 and two shopping spends of
\* 13.00: both shopping spends and nothing else are single-day spikes
C28_Witness ==
    /\ AnomaliesDone
    /\ Len(rows) = 3
    /\ \E i \in DOMAIN rows :
        rows[i].category = "rent" /\ rows[i].amount = FNeg(FQuot(2000, 100))
    /\ Cardinality(NonRentSpends) = 2
    /\ \A i \in NonRentSpends : rows[i].amount = FNeg(FFromInt(13))
    /\ \A i \in DOMAIN rows : FlaggedSpike(i) <=> i \in NonRentSpends
    /\ Len(anomalies) = 2

\* detect_anomalies has returned no anomaly at all for two shopping spends of
\* 12.99: the 99th percentile of 12.99 and 12.99 is the float above 12.99
C28_EqualSpendsUnflagged ==
    /\ AnomaliesDone
    /\ Len(rows) = 2
    /\ NonRentSpends = {1, 2}
    /\ \A i \in NonRentSpends : rows[i].amount = FNeg(FQuot(1299, 100))
    /\ anomalies = <<>>

-----------------------------------------------------------------------------
(* C29: the shared client                                                  *)

ClientCalls == gemini_client.calls

\* the calls that returned a client, without and with overrides
SharedCalls ==
    {i \in DOMAIN ClientCalls :
        DOMAIN ClientCalls[i].overrides = {} /\ ClientCalls[i].raised = ""}

OverrideCalls ==
    {i \in DOMAIN ClientCalls :
        DOMAIN ClientCalls[i].overrides # {} /\ ClientCalls[i].raised = ""}

\* the value of _shared_client when call i begins
SharedBefore(i) == IF i = 1 THEN NoClient ELSE ClientCalls[i - 1].shared_client

\* C29: over any sequence of get_gemini_client calls, every call without
\* overrides returns the same shared client instance (constructed once, on
\* the first such call), and a call with overrides returns a fresh client
\* and neither creates nor replaces the shared instance.
C29_SharedClientSingleton ==
    /\ \A i \in SharedCalls :
        /\ ClientCalls[i].client = ClientCalls[i].shared_client
        /\ ClientCalls[i].client = gemini_client.shared_client
        /\ \A j \in SharedCalls : ClientCalls[j].client = ClientCalls[i].client
        /\ ClientCalls[i].constructed = IF \A j \in SharedCalls : i <= j THEN 1 ELSE 0
    /\ \A i \in OverrideCalls :
        /\ ClientCalls[i].constructed = 1
        /\ \A j \in 1..(i - 1) : ClientCalls[j].client # ClientCalls[i].client
        /\ ClientCalls[i].client # ClientCalls[i].shared_client
        /\ ClientCalls[i].shared_client = SharedBefore(i)
    /\ Len(gemini_client.clients)
         = Cardinality(OverrideCalls) + IF SharedCalls = {} THEN 0 ELSE 1

\* four calls have returned: with another key before any client is shared,
\* without overrides, with another model, without overrides again; the second
\* and the fourth returned one client, the first and the third two others
C29_Witness ==
    /\ Len(ClientCalls) = 4
    /\ OverrideCalls = {1, 3}
    /\ SharedCalls = {2, 4}
    /\ ClientCalls[1].shared_client = NoClient
    /\ ClientCalls[2].client = ClientCalls[4].client
    /\ ClientCalls[3].shared_client = ClientCalls[2].client
    /\ Cardinality({ClientCalls[i].client : i \in 1..4}) = 3
    /\ gemini_client.clients[ClientCalls[1].client].api_key = "other-key"
    /\ gemini_client.clients[ClientCalls[2].client].api_key = "env-key"
    /\ gemini_client.clients[ClientCalls[3].client].model_name = "models/other"

=============================================================================
